---- MODULE Spec2Model ----
(***************************************************************************)
(* The procedural asteroid mesh generator of the Asteroids example:        *)
(* CreateIcosahedron, SubdivideInPlace, SpherifyInPlace, CreateGeospheres, *)
(* CreateAsteroidsFromGeospheres and makeMeshes, as a sequential program   *)
(* whose position is pc.                                                   *)
(*                                                                         *)
(* Arithmetic is exact.  Every coordinate of the icosahedron is one of     *)
(* 0, +-a, +-b with a = sqrt(2/(5-sqrt 5)), b = sqrt(2/(5+sqrt 5)), so a   *)
(* coordinate is kept as <<p, q>> over a denominator den, standing for     *)
(* (p*a + q*b)/den.  With a*a = (5+sqrt 5)/10, b*b = (5-sqrt 5)/10 and     *)
(* a*b = sqrt(5)/5 the squared length of a vertex is decided in integers.  *)
(***************************************************************************)
EXTENDS Integers, Sequences, FiniteSets, TLC

\* ---------------------------------------------------------------- bounds
\* subdivision levels asked of CreateGeospheres directly
MaxSubdiv == 2
\* subdivision levels and instances asked of CreateAsteroidsFromGeospheres and makeMeshes
MaxAsteroidSubdiv == 1
MaxInstances == 2
RngMod == 16

\* the seeds the callers pass: makeMeshes passes 100
MakeMeshesSeed == 100
Seeds == {MakeMeshesSeed, 7}

\* ------------------------------------------------------------------ state
VARIABLES
    entry,                  \* the function the caller entered
    subdivLevelCount,       \* argument
    meshInstanceCount,      \* argument
    rngSeed,                \* argument
    pc,                     \* position in the program
    baseMesh,               \* the Mesh CreateGeospheres and SubdivideInPlace work on
                            \* (their outMesh; baseMesh of CreateAsteroidsFromGeospheres)
    vertices,               \* local of CreateGeospheres, then of CreateAsteroidsFromGeospheres
    normals,                \* likewise
    indices,                \* local of CreateGeospheres
    outSubdivIndexOffsets,  \* the caller's offset array, [0 .. L+1]
    written,                \* the entries of the offset array written so far
    i,                      \* loop counter of CreateGeospheres, then of makeMeshes
    t,                      \* SubdivideInPlace: loop counter
    midpoints,              \* SubdivideInPlace: MidpointMap
    newIndices,             \* SubdivideInPlace: the new index list
    levels,                 \* the mesh SubdivideInPlace was given / has left, per level
    geoReturned,            \* what CreateGeospheres returned: indices and offsets
    rng,                    \* CreateAsteroidsFromGeospheres: the generator
    m,                      \* CreateAsteroidsFromGeospheres: loop counter
    vertexCountPerMesh,     \* out parameter of CreateAsteroidsFromGeospheres
    outMesh,                \* outMesh of CreateAsteroidsFromGeospheres (_meshes of makeMeshes)
    meshes,                 \* makeMeshes: the meshes pushed so far
    run,                    \* 1 in the first call of the entry, 2 in a second call with
                            \* the same arguments, 3 in one with more instances
    prevOut,                \* the output of the previous call
    newMesh,                \* CreateAsteroidsFromGeospheres: newMesh of the loop body
                            \* (outMesh of ComputeAvgNormalsInPlace called by itself)
    draws,                  \* the draws made from rng so far: instance, kind, state
    meshData,               \* makeMeshes: meshData of the loop body
    lengthChecked,          \* makeMeshes: the arrays whose lengths its assert compared
    app,                    \* the example application running, "none" before its set-up
    flyer,                  \* CameraFlyer: mYaw and mPitch, in degrees
    rotator,                \* ObjectRotator: mYaw and mPitch, in degrees
    fpsCamera,              \* FPSCamera: mYaw and mPitch, in degrees
    fpsPc,                  \* FPSCamera: "ApplyAngles" when that call is next, else "idle"
    gMaterialIdx,           \* CustomMaterials: index of the material shown
    material,               \* CustomMaterials: the material of gRenderable
    shaderOverride,         \* the renderer's global overrides: the sub-shaders replaced
    guiLabel,               \* CustomMaterials: the material name on the GUI label
    cursorHidden,           \* whether the cursor is hidden
    switches                \* CustomMaterials: the calls of switchMaterial so far

vars == <<entry, subdivLevelCount, meshInstanceCount, rngSeed, pc, baseMesh, vertices,
          normals, indices, outSubdivIndexOffsets, written, i, t, midpoints, newIndices,
          levels, geoReturned, rng, m, vertexCountPerMesh, outMesh, meshes, run, prevOut,
          newMesh, draws, meshData, lengthChecked, app, flyer, rotator, fpsCamera, fpsPc,
          gMaterialIdx, material, shaderOverride, guiLabel, cursorHidden, switches>>

\* The state of the asteroid mesh generation and the state of the example applications.
geometryVars == <<entry, subdivLevelCount, meshInstanceCount, rngSeed, pc, baseMesh, vertices,
                  normals, indices, outSubdivIndexOffsets, written, i, t, midpoints,
                  newIndices, levels, geoReturned, rng, m, vertexCountPerMesh, outMesh,
                  meshes, run, prevOut, newMesh, draws, meshData, lengthChecked>>

exampleVars == <<app, flyer, rotator, fpsCamera, fpsPc, gMaterialIdx, material,
                 shaderOverride, guiLabel, cursorHidden, switches>>

\* ------------------------------------------------------------ sequences
\* s[lo+1 .. hi] of a 0-based buffer: the elements at offsets lo .. hi-1
Slice(s, lo, hi) == [k \in 1..(hi - lo) |-> s[lo + k]]

\* element at 0-based offset k
At(s, k) == s[k + 1]

Range(s) == {s[k] : k \in 1..Len(s)}

\* ------------------------------------------------------------- vertices
\* a position: (x, y, z)/den, divided by its own length when sph, times rad[1]/rad[2]
Vtx(x, y, z) == [x |-> x, y |-> y, z |-> z, den |-> 1, sph |-> FALSE, rad |-> <<1, 1>>]

\* a coordinate holding p*a + q*b
A1 == <<1, 0>>
B1 == <<0, 1>>
Z0 == <<0, 0>>
Neg(c) == <<0 - c[1], 0 - c[2]>>

\* 10 * den^2 * |v|^2 = rat + irr * sqrt 5, for the coordinates as stored
NormRat(v) ==
    5 * (v.x[1]*v.x[1] + v.y[1]*v.y[1] + v.z[1]*v.z[1]
         + v.x[2]*v.x[2] + v.y[2]*v.y[2] + v.z[2]*v.z[2])

NormIrr(v) ==
    (v.x[1]*v.x[1] + v.y[1]*v.y[1] + v.z[1]*v.z[1])
    - (v.x[2]*v.x[2] + v.y[2]*v.y[2] + v.z[2]*v.z[2])
    + 4 * (v.x[1]*v.x[2] + v.y[1]*v.y[2] + v.z[1]*v.z[2])

IsZeroVec(v) == v.x = Z0 /\ v.y = Z0 /\ v.z = Z0

\* the vertex lies at distance 1 from the origin
OnUnitSphere(v) ==
    /\ v.rad[1] * v.rad[1] = v.rad[2] * v.rad[2]
    /\ IF v.sph THEN ~IsZeroVec(v)
       ELSE NormRat(v) = 10 * v.den * v.den /\ NormIrr(v) = 0

\* --------------------------------------------------------- the icosahedron
num_vertices == 12
num_triangles == 20

IcoVertices ==
    << Vtx(Neg(B1), A1, Z0),
       Vtx(B1, A1, Z0),
       Vtx(Neg(B1), Neg(A1), Z0),
       Vtx(B1, Neg(A1), Z0),
       Vtx(Z0, Neg(B1), A1),
       Vtx(Z0, B1, A1),
       Vtx(Z0, Neg(B1), Neg(A1)),
       Vtx(Z0, B1, Neg(A1)),
       Vtx(A1, Z0, Neg(B1)),
       Vtx(A1, Z0, B1),
       Vtx(Neg(A1), Z0, Neg(B1)),
       Vtx(Neg(A1), Z0, B1) >>

IcoIndices ==
    <<  0,  5, 11,
        0,  1,  5,
        0,  7,  1,
        0, 10,  7,
        0, 11, 10,
        1,  9,  5,
        5,  4, 11,
       11,  2, 10,
       10,  6,  7,
        7,  8,  1,
        3,  4,  9,
        3,  2,  4,
        3,  6,  2,
        3,  8,  6,
        3,  9,  8,
        4,  5,  9,
        2, 11,  4,
        6, 10,  2,
        8,  7,  6,
        9,  1,  8 >>

\* a zero-initialised normal (std::vector::resize value-initialises)
\* a normal is the sum, in the order of acc, of cross(v2-v1, v3-v1) of the triangle t of
\* each corner <<t, c>> of acc, divided by its own length when unit
ZeroNormal == [acc |-> <<>>, unit |-> FALSE]

ZeroNormals(n) == [k \in 1..n |-> ZeroNormal]

\* a default-constructed Mesh
EmptyMesh == [vertices |-> <<>>, normals |-> <<>>, indices |-> <<>>, uv |-> <<>>]

\* the table appended to what the mesh holds, without the clear()
CreateIcosahedron_NoClear(mesh) ==
    [mesh EXCEPT !.vertices = @ \o SubSeq(IcoVertices, 1, num_vertices),
                 !.indices  = @ \o SubSeq(IcoIndices, 1, num_triangles * 3),
                 !.normals  = ZeroNormals(Len(mesh.vertices) + num_vertices)]

\* Mesh::clear() (which leaves uv alone) followed by the two inserts and the resize
CreateIcosahedron(mesh) ==
    [mesh EXCEPT !.vertices = SubSeq(IcoVertices, 1, num_vertices),
                 !.indices  = SubSeq(IcoIndices, 1, num_triangles * 3),
                 !.normals  = ZeroNormals(num_vertices)]

\* ------------------------------------------------------------ subdivision
\* Edge without the swap
Edge_Unordered(i0, i1) == <<i0, i1>>

\* the constructor of Edge: lower index first
Edge(i0, i1) == IF i0 > i1 THEN <<i1, i0>> ELSE <<i0, i1>>

\* the vertex EdgeMidpoint computes from the two end points
MidVertex(a, b) ==
    LET d == IF a.den > b.den THEN a.den ELSE b.den
        ka == d \div a.den
        kb == d \div b.den
        mid(u, v) == <<ka * u[1] + kb * v[1], ka * u[2] + kb * v[2]>>
    IN  [x |-> mid(a.x, b.x), y |-> mid(a.y, b.y), z |-> mid(a.z, b.z),
         den |-> 2 * d, sph |-> FALSE, rad |-> <<1, 1>>]

\* what a read of vertices[k] past the end of the vector can return
GarbageVertices == {Vtx(Z0, Z0, Z0), Vtx(A1, A1, A1)}

\* mesh->vertices[k]: operator[] checks nothing, so an index past the end reads beyond
ReadVertex(verts, k, beyond) == IF k < Len(verts) THEN At(verts, k) ELSE beyond

\* EdgeMidpoint without the find: a vertex per request
EdgeMidpoint_NoLookup(st, e) ==
    [vertices  |-> Append(st.vertices,
                          MidVertex(ReadVertex(st.vertices, e[1], st.beyond),
                                    ReadVertex(st.vertices, e[2], st.beyond))),
     midpoints |-> (e :> Len(st.vertices)) @@ st.midpoints,
     index     |-> Len(st.vertices),
     beyond    |-> st.beyond,
     fault     |-> st.fault \/ e[1] >= Len(st.vertices) \/ e[2] >= Len(st.vertices)]

\* EdgeMidpoint on the state st = [vertices, midpoints]; index is the result, beyond is
\* what a read past the end returns, fault whether there has been such a read
EdgeMidpoint(st, e) ==
    IF e \notin DOMAIN st.midpoints
    THEN [vertices  |-> Append(st.vertices,
                               MidVertex(ReadVertex(st.vertices, e[1], st.beyond),
                                         ReadVertex(st.vertices, e[2], st.beyond))),
          midpoints |-> st.midpoints @@ (e :> Len(st.vertices)),
          index     |-> Len(st.vertices),
          beyond    |-> st.beyond,
          fault     |-> st.fault \/ e[1] >= Len(st.vertices) \/ e[2] >= Len(st.vertices)]
    ELSE [vertices  |-> st.vertices,
          midpoints |-> st.midpoints,
          index     |-> st.midpoints[e],
          beyond    |-> st.beyond,
          fault     |-> st.fault]

\* the loop body without the centre triangle
SubdivideTriangle_NoCentre(verts, inds, mids, tt, beyond) ==
    LET t0 == At(inds, tt*3 + 0)
        t1 == At(inds, tt*3 + 1)
        t2 == At(inds, tt*3 + 2)
        r0 == EdgeMidpoint([vertices |-> verts, midpoints |-> mids, beyond |-> beyond,
                            fault |-> FALSE], Edge(t0, t1))
        r1 == EdgeMidpoint(r0, Edge(t1, t2))
        r2 == EdgeMidpoint(r1, Edge(t2, t0))
    IN  [vertices  |-> r2.vertices,
         midpoints |-> r2.midpoints,
         fault     |-> r2.fault,
         emitted   |-> << t0, r0.index, r2.index,
                          r0.index, t1, r1.index,
                          r2.index, r1.index, t2 >>]

\* the centre triangle emitted first
SubdivideTriangle_CentreFirst(verts, inds, mids, tt, beyond) ==
    LET t0 == At(inds, tt*3 + 0)
        t1 == At(inds, tt*3 + 1)
        t2 == At(inds, tt*3 + 2)
        r0 == EdgeMidpoint([vertices |-> verts, midpoints |-> mids, beyond |-> beyond,
                            fault |-> FALSE], Edge(t0, t1))
        r1 == EdgeMidpoint(r0, Edge(t1, t2))
        r2 == EdgeMidpoint(r1, Edge(t2, t0))
    IN  [vertices  |-> r2.vertices,
         midpoints |-> r2.midpoints,
         fault     |-> r2.fault,
         emitted   |-> << r0.index, r1.index, r2.index,
                          t0, r0.index, r2.index,
                          r0.index, t1, r1.index,
                          r2.index, r1.index, t2 >>]

\* the centre triangle wound the other way round
SubdivideTriangle_CentreFlipped(verts, inds, mids, tt, beyond) ==
    LET t0 == At(inds, tt*3 + 0)
        t1 == At(inds, tt*3 + 1)
        t2 == At(inds, tt*3 + 2)
        r0 == EdgeMidpoint([vertices |-> verts, midpoints |-> mids, beyond |-> beyond,
                            fault |-> FALSE], Edge(t0, t1))
        r1 == EdgeMidpoint(r0, Edge(t1, t2))
        r2 == EdgeMidpoint(r1, Edge(t2, t0))
    IN  [vertices  |-> r2.vertices,
         midpoints |-> r2.midpoints,
         fault     |-> r2.fault,
         emitted   |-> << t0, r0.index, r2.index,
                          r0.index, t1, r1.index,
                          r0.index, r2.index, r1.index,
                          r2.index, r1.index, t2 >>]

\* the body of SubdivideInPlace's loop for triangle tt
SubdivideTriangle(verts, inds, mids, tt, beyond) ==
    LET t0 == At(inds, tt*3 + 0)
        t1 == At(inds, tt*3 + 1)
        t2 == At(inds, tt*3 + 2)
        r0 == EdgeMidpoint([vertices |-> verts, midpoints |-> mids, beyond |-> beyond,
                            fault |-> FALSE], Edge(t0, t1))
        r1 == EdgeMidpoint(r0, Edge(t1, t2))
        r2 == EdgeMidpoint(r1, Edge(t2, t0))
        m0 == r0.index
        m1 == r1.index
        m2 == r2.index
    IN  [vertices  |-> r2.vertices,
         midpoints |-> r2.midpoints,
         fault     |-> r2.fault,
         emitted   |-> << t0, m0, m2,
                          m0, t1, m1,
                          m0, m1, m2,
                          m2, m1, t2 >>]

\* ------------------------------------------------------------ spherifier
SpherifyVertex(v) == [v EXCEPT !.sph = TRUE]

SpherifyInPlace(mesh) ==
    [mesh EXCEPT !.vertices = [k \in 1..Len(mesh.vertices) |-> SpherifyVertex(mesh.vertices[k])]]

\* --------------------------------------------------- CreateGeospheres, pieces
\* the indices of one level pushed without the vertex offset
OffsetIndices_NoOffset(inds, vertexOffset) == inds

\* the offset one too large
OffsetIndices_OneBased(inds, vertexOffset) ==
    [k \in 1..Len(inds) |-> inds[k] + vertexOffset + 1]

\* the indices of one level as CreateGeospheres pushes them on the combined buffer
OffsetIndices(inds, vertexOffset) == [k \in 1..Len(inds) |-> inds[k] + vertexOffset]

\* the offset recorded in triangles, not indices
RecordOffset_Triangles(offs, k, inds) == [offs EXCEPT ![k] = Len(inds) \div 3]

\* outSubdivIndexOffsets[k] = (unsigned int)indices.size()
RecordOffset(offs, k, inds) == [offs EXCEPT ![k] = Len(inds)]

\* ------------------------------------------ generator and noise (external)
\* a generator that outlives the call and is not seeded again
mt19937_NotReseeded(seed) == (seed + rng) % RngMod

\* std::mt19937 rng(rngSeed): the generator's state after seeding
mt19937(seed) == seed % RngMod

\* the generator's next state
Advance(g) == (5 * g + 3) % RngMod

\* randomPersistence(rng), randomNoise(rng): the value drawn from generator state g
randomPersistence(g) == g
randomNoise(g) == g

\* a hash of the sample point, standing for the lattice cell the noise reads
SamplePoint(v) ==
    (v.x[1] + 2 * v.x[2] + 3 * v.y[1] + 5 * v.y[2] + 7 * v.z[1] + 11 * v.z[2]
     + 13 * v.den + 17 * 1024) % 21

\* NoiseOctaves<4>(persistence)(x, y, z, noise), in tenths: -10 .. 10
textureNoise(persistence, v, noise) ==
    ((7 * persistence + 3 * noise + SamplePoint(v)) % 21) - 10

\* ----------------------------------------------------- asteroids, pieces
\* radiusScale and radiusBias the other way round: (3*n + 90)/100
Radius_Swapped(n10) == <<3 * n10 + 90, 100>>

\* radius = radius * radiusScale + radiusBias, as a fraction: (9*n + 30)/100
Radius(n10) == <<9 * n10 + 30, 100>>

\* v.x *= radius; v.y *= radius; v.z *= radius
Displace(v, radius) == [v EXCEPT !.rad = <<v.rad[1] * radius[1], v.rad[2] * radius[2]>>]

\* the first loop of ComputeAvgNormalsInPlace left out
ZeroAccumulators_Kept(norms) == norms

\* the first loop of ComputeAvgNormalsInPlace: v.x = v.y = v.z = 0
ZeroAccumulators(norms) == <<>> \o [k \in 1..Len(norms) |-> ZeroNormal]

\* n->x += nx; n->y += ny; n->z += nz for the normal at index k, corner c of triangle
\* tt; an index past the end writes outside the vector
AddCross(norms, k, tt, c) ==
    IF k < Len(norms)
    THEN [norms EXCEPT ![k + 1] = [acc |-> Append(@.acc, <<tt, c>>), unit |-> @.unit]]
    ELSE norms

\* the second loop of ComputeAvgNormalsInPlace for triangles lo .. hi-1, in that order
\* (the range is halved to keep the evaluation shallow)
RECURSIVE AccumulateTriangles(_, _, _, _)
AccumulateTriangles(norms, inds, lo, hi) ==
    IF Len(norms) = 0 \/ hi <= lo THEN norms
    ELSE IF hi = lo + 1
    THEN AddCross(AddCross(AddCross(norms, At(inds, lo*3 + 0), lo, 0),
                           At(inds, lo*3 + 1), lo, 1),
                  At(inds, lo*3 + 2), lo, 2)
    ELSE AccumulateTriangles(AccumulateTriangles(norms, inds, lo, (lo + hi) \div 2),
                             inds, (lo + hi) \div 2, hi)

\* the third loop of ComputeAvgNormalsInPlace: v *= 1 / length
NormalizeNormals(norms) == [k \in 1..Len(norms) |-> [norms[k] EXCEPT !.unit = TRUE]]

\* ComputeAvgNormalsInPlace up to the third loop
AccumulateNormals(mesh) ==
    [mesh EXCEPT !.normals =
        AccumulateTriangles(ZeroAccumulators(mesh.normals), mesh.indices,
                            0, Len(mesh.indices) \div 3)]

\* ComputeAvgNormalsInPlace: zero, accumulate per corner, normalise
ComputeAvgNormalsInPlace(mesh) ==
    [mesh EXCEPT !.normals = NormalizeNormals(AccumulateNormals(mesh).normals)]

\* one coordinate c of vertex v, with the scalings of v
Scalar(v, c) ==
    [num |-> c, den |-> v.den, rad |-> v.rad,
     len |-> IF v.sph THEN <<v.x, v.y, v.z>> ELSE <<>>]

\* a UV map that stops one vertex short of the end
CreateUVMap_SkipLast(mesh) ==
    [mesh EXCEPT !.uv =
        [k \in 1..(Len(mesh.vertices) - 1) |->
            <<Scalar(mesh.vertices[k], mesh.vertices[k].x),
              Scalar(mesh.vertices[k], mesh.vertices[k].y)>>]]

\* CreateUVMap: uvs[i] = {x, y} of the vertex
CreateUVMap(mesh) ==
    [mesh EXCEPT !.uv =
        [k \in 1..Len(mesh.vertices) |->
            <<Scalar(mesh.vertices[k], mesh.vertices[k].x),
              Scalar(mesh.vertices[k], mesh.vertices[k].y)>>]]

\* the two draws in the other order
DrawParameters_NoiseFirst(g) ==
    [persistence |-> randomPersistence(Advance(g)),
     noise       |-> randomNoise(g),
     rng         |-> Advance(Advance(g)),
     drawn       |-> << [kind |-> "noise", state |-> g],
                        [kind |-> "persistence", state |-> Advance(g)] >>]

\* textureNoise(randomPersistence(rng)); noise = randomNoise(rng): the two values, the
\* generator after them and the draws made, in order
DrawParameters(g) ==
    [persistence |-> randomPersistence(g),
     noise       |-> randomNoise(Advance(g)),
     rng         |-> Advance(Advance(g)),
     drawn       |-> << [kind |-> "persistence", state |-> g],
                        [kind |-> "noise", state |-> Advance(g)] >>]

\* the copy given only the indices of the last level, the ones makeMeshes packs
NewMesh_LastLevelOnly(base, g) ==
    LET persistence == DrawParameters(g).persistence
        noise == DrawParameters(g).noise
    IN  [base EXCEPT !.indices = Slice(base.indices, outSubdivIndexOffsets[subdivLevelCount],
                                       outSubdivIndexOffsets[subdivLevelCount + 1]),
                      !.vertices =
            [k \in 1..Len(base.vertices) |->
                Displace(base.vertices[k],
                         Radius(textureNoise(persistence, base.vertices[k], noise)))]]

\* the body of CreateAsteroidsFromGeospheres' loop up to ComputeAvgNormalsInPlace: the
\* displaced copy of the base mesh
NewMesh(base, g) ==
    LET persistence == DrawParameters(g).persistence
        noise == DrawParameters(g).noise
    IN  [base EXCEPT !.vertices =
            [k \in 1..Len(base.vertices) |->
                Displace(base.vertices[k],
                         Radius(textureNoise(persistence, base.vertices[k], noise)))]]

\* the new elements inserted at begin(), not at end()
InsertAtEnd_AtBegin(pool, elements) == elements \o pool

\* vertices.insert(vertices.end(), first, last)
InsertAtEnd(pool, elements) == pool \o elements

\* the count of the last level alone
VertexCountPerMesh_LastLevel(base) == Len(levels[Len(levels)].vertices)

\* *vertexCountPerMesh = (unsigned int)baseMesh.vertices.size()
VertexCountPerMesh(base) == Len(base.vertices)

\* the output given only the last level's indices
CopyToOutput_LastLevel(out, base, verts, norms) ==
    CreateUVMap([out EXCEPT !.indices = Slice(base.indices,
                                              outSubdivIndexOffsets[subdivLevelCount],
                                              outSubdivIndexOffsets[subdivLevelCount + 1]),
                            !.vertices = verts,
                            !.normals = norms])

\* the three swaps that copy to the output, then CreateUVMap
CopyToOutput(out, base, verts, norms) ==
    CreateUVMap([out EXCEPT !.indices = base.indices,
                            !.vertices = verts,
                            !.normals = norms])

\* ------------------------------------------------------- packing, pieces
\* the sizes of the vertex element types and of Vector4, in floats
VET_FLOAT3 == 3
VET_FLOAT2 == 2
SizeofVector4 == 4

\* vertexDesc of makeMeshes: the elements in the order addVertElem was called
VertexElements ==
    << [semantic |-> "VES_POSITION", size |-> VET_FLOAT3],
       [semantic |-> "VES_NORMAL",   size |-> VET_FLOAT3],
       [semantic |-> "VES_TANGENT",  size |-> VET_FLOAT3],
       [semantic |-> "VES_TEXCOORD", size |-> VET_FLOAT2] >>

RECURSIVE SizeOfFirst(_)
SizeOfFirst(n) == IF n = 0 THEN 0 ELSE SizeOfFirst(n - 1) + VertexElements[n].size

\* the offset of an element inside a vertex, and the stride of a vertex, in floats
ElementOffset(semantic) ==
    SizeOfFirst((CHOOSE n \in 1..Len(VertexElements) :
                     VertexElements[n].semantic = semantic) - 1)

ElementSize(semantic) ==
    VertexElements[CHOOSE n \in 1..Len(VertexElements) :
                       VertexElements[n].semantic = semantic].size

VertexStride == SizeOfFirst(Len(VertexElements))

\* the floats of a Vertex, of a Normal and of a Vector2 of the pool
VertexFloats(v) == <<Scalar(v, v.x), Scalar(v, v.y), Scalar(v, v.z)>>
NormalFloats(n) == <<[normal |-> n, c |-> "x"], [normal |-> n, c |-> "y"],
                     [normal |-> n, c |-> "z"]>>
UVFloats(uv) == uv

\* MeshData::create: a buffer of numVertices vertices nobody has written to yet (every
\* float of the buffer is a record, an unwritten one [uninit |-> TRUE]; an unwritten
\* index is -1)
MeshDataCreate(numVertices, numIndices) ==
    [numVertices |-> numVertices,
     numIndices  |-> numIndices,
     vertexData  |-> [k \in 1..numVertices |-> [s \in 1..VertexStride |-> [uninit |-> TRUE]]],
     indices     |-> [k \in 1..numIndices |-> -1]]

\* setVertexData(semantic, data, size): element k of data into vertex k's slot
setVertexData(md, semantic, data) ==
    [md EXCEPT !.vertexData =
        [k \in 1..Len(md.vertexData) |->
            [s \in 1..VertexStride |->
                IF /\ s > ElementOffset(semantic)
                   /\ s <= ElementOffset(semantic) + ElementSize(semantic)
                   /\ k <= Len(data)
                THEN data[k][s - ElementOffset(semantic)]
                ELSE md.vertexData[k][s]]]]

\* the float at address a (in floats from the start of the buffer) set to val; an
\* address past the end of the buffer is outside meshData
WriteFloat(vertexData, a, val) ==
    IF a \div VertexStride < Len(vertexData)
    THEN [vertexData EXCEPT ![(a \div VertexStride) + 1][(a % VertexStride) + 1] = val]
    ELSE vertexData

\* memcpy(dst, &packedTangent, size floats)
RECURSIVE Memcpy(_, _, _, _)
Memcpy(vertexData, a, src, size) ==
    IF size = 0 THEN vertexData
    ELSE WriteFloat(Memcpy(vertexData, a, src, size - 1), a + size - 1, src[size])

\* sizeof(Vector4), the size generateTangents copies per vertex
TangentCopySize == SizeofVector4

\* the position the floats of a vertex of the buffer stand for
PositionOf(floats) ==
    [x |-> floats[ElementOffset("VES_POSITION") + 1].num,
     y |-> floats[ElementOffset("VES_POSITION") + 2].num,
     z |-> floats[ElementOffset("VES_POSITION") + 3].num,
     den |-> floats[ElementOffset("VES_POSITION") + 1].den]

\* sign = dot(cross(normal, tangent), bitangent), as -1, 0 or 1 (calculateTangents
\* is the engine's)
HandednessDot(position) == (SamplePoint(position) % 3) - 1

\* the sign taken as signum: 0 for a dot product of 0
PackedTangent_Signum(position, k) ==
    << [tangent |-> k, c |-> "x"], [tangent |-> k, c |-> "y"], [tangent |-> k, c |-> "z"],
       [sign |-> HandednessDot(position)] >>

\* generateTangents: the packed tangent of vertex k of the mesh data
PackedTangent(position, k) ==
    << [tangent |-> k, c |-> "x"], [tangent |-> k, c |-> "y"], [tangent |-> k, c |-> "z"],
       [sign |-> IF HandednessDot(position) > 0 THEN 1 ELSE -1] >>

\* the loop of generateTangents for vertices lo .. hi-1, in that order (the range is
\* halved to keep the evaluation shallow); temp holds what calculateTangents computed
\* before the loop, tangents is the pointer to vertex 0's tangent element
RECURSIVE WriteTangents(_, _, _, _, _, _)
WriteTangents(vertexData, temp, lo, hi, vertexOffset, tangents) ==
    IF Len(vertexData) = 0 \/ hi <= lo THEN vertexData
    ELSE IF hi = lo + 1
    THEN Memcpy(vertexData, tangents + (vertexOffset + lo) * VertexStride,
                temp[lo + 1], TangentCopySize)
    ELSE WriteTangents(WriteTangents(vertexData, temp, lo, (lo + hi) \div 2,
                                     vertexOffset, tangents),
                       temp, (lo + hi) \div 2, hi, vertexOffset, tangents)

\* generateTangents: calculateTangents, then the loop
generateTangents(vertexData, numVertices, vertexOffset, tangents) ==
    WriteTangents(vertexData,
                  [k \in 1..numVertices |->
                      PackedTangent(PositionOf(vertexData[vertexOffset + k]), k - 1)],
                  0, numVertices, vertexOffset, tangents)

\* CalculateTangents(meshData): vertexOffset = 0, indexOffset = 0
CalculateTangents(md) ==
    [md EXCEPT !.vertexData =
        generateTangents(md.vertexData, md.numVertices, 0,
                         ElementOffset("VES_TANGENT"))]

\* the copy taken from the start of the shared buffer
MeshIndices_FromStart(inds, offs, j) == Slice(inds, 0, offs[j + 1] - offs[j])

\* the slice of the shared index buffer makeMeshes copies into a mesh
MeshIndices(inds, offs, j) == Slice(inds, offs[j], offs[j + 1])

\* every instance given the start of the pool
VertexOffset_First(ii, countPerMesh) == 0

\* vertexOffset = i * mVertexCountPerMesh
VertexOffset(ii, countPerMesh) == ii * countPerMesh

\* the texture coordinates left out of the copies
WriteMeshData_NoUV(all, offs, j, countPerMesh, ii) ==
    LET vertexOffset == VertexOffset(ii, countPerMesh)
        created == MeshDataCreate(countPerMesh, offs[j + 1] - offs[j])
        range(s) == Slice(s, vertexOffset, vertexOffset + countPerMesh)
        p == setVertexData(created, "VES_POSITION",
                           [k \in 1..countPerMesh |-> VertexFloats(range(all.vertices)[k])])
        n == setVertexData(p, "VES_NORMAL",
                           [k \in 1..countPerMesh |-> NormalFloats(range(all.normals)[k])])
    IN  [n EXCEPT !.indices = MeshIndices(all.indices, offs, j)]

\* the body of makeMeshes' loop up to CalculateTangents: MeshData::create, the three
\* setVertexData and the memcpy of the indices, for instance ii
WriteMeshData(all, offs, j, countPerMesh, ii) ==
    LET vertexOffset == VertexOffset(ii, countPerMesh)
        created == MeshDataCreate(countPerMesh, offs[j + 1] - offs[j])
        range(s) == Slice(s, vertexOffset, vertexOffset + countPerMesh)
        p == setVertexData(created, "VES_POSITION",
                           [k \in 1..countPerMesh |-> VertexFloats(range(all.vertices)[k])])
        n == setVertexData(p, "VES_NORMAL",
                           [k \in 1..countPerMesh |-> NormalFloats(range(all.normals)[k])])
        u == setVertexData(n, "VES_TEXCOORD",
                           [k \in 1..countPerMesh |-> UVFloats(range(all.uv)[k])])
    IN  [u EXCEPT !.indices = MeshIndices(all.indices, offs, j)]

\* no MeshData: outside the loop body of makeMeshes
NoMeshData == [numVertices |-> 0, numIndices |-> 0, vertexData |-> <<>>, indices |-> <<>>]

\* ------------------------------------------- meshes given to SubdivideInPlace
MeshOf(verts, inds) ==
    [vertices |-> verts, normals |-> ZeroNormals(Len(verts)), indices |-> inds, uv |-> <<>>]

OneTriangle == MeshOf(<<IcoVertices[1], IcoVertices[6], IcoVertices[12]>>, <<0, 1, 2>>)

TwoTriangles ==
    MeshOf(<<IcoVertices[1], IcoVertices[6], IcoVertices[12], IcoVertices[2]>>,
           <<0, 1, 2,  0, 3, 1>>)

\* two triangles that run along their shared edge in the same direction
FlippedPair ==
    MeshOf(<<IcoVertices[1], IcoVertices[6], IcoVertices[12], IcoVertices[2]>>,
           <<0, 1, 2,  0, 1, 3>>)

Tetrahedron ==
    MeshOf(<<IcoVertices[1], IcoVertices[6], IcoVertices[12], IcoVertices[2]>>,
           <<0, 1, 2,  0, 3, 1,  0, 2, 3,  1, 3, 2>>)

InputMeshes == {OneTriangle, TwoTriangles, FlippedPair, Tetrahedron}

\* an index list whose length is not a multiple of 3
BadLength == MeshOf(<<IcoVertices[1], IcoVertices[6], IcoVertices[12]>>, <<0, 1, 2, 0>>)

\* an index past the end of the vertices
BadIndex == MeshOf(<<IcoVertices[1], IcoVertices[6], IcoVertices[12]>>, <<0, 1, 5>>)

InvalidMeshes == {BadLength, BadIndex}

\* a mesh with a vertex at the origin
WithOrigin ==
    MeshOf(<<IcoVertices[1], Vtx(Z0, Z0, Z0), IcoVertices[12]>>, <<0, 1, 2>>)

SpherifyInputs == {OneTriangle, Tetrahedron, WithOrigin}

\* meshes given to CreateIcosahedron: a fresh one, and ones that hold something
UsedMesh == [WithOrigin EXCEPT !.uv = << <<Z0, Z0>>, <<A1, B1>>, <<B1, A1>> >>]

IcosahedronInputs == {EmptyMesh, Tetrahedron, UsedMesh}

\* a normal some earlier computation has left in the array
LeftoverNormal == [acc |-> << <<0, 0>>, <<7, 1>> >>, unit |-> TRUE]

WithLeftoverNormals(mesh) ==
    [mesh EXCEPT !.normals = [k \in 1..Len(mesh.normals) |-> LeftoverNormal]]

NormalsInputs ==
    InputMeshes \cup InvalidMeshes \cup {WithLeftoverNormals(mesh) : mesh \in InputMeshes}

\* ------------------------------------------------------------- initial state
NoMidpoints == [e \in {} |-> 0]

NoGeo == [indices |-> <<>>, offsets |-> <<>>]

\* everything a caller can read when the entry returns
Output ==
    [baseMesh |-> baseMesh, offsets |-> outSubdivIndexOffsets,
     vertexCountPerMesh |-> vertexCountPerMesh, outMesh |-> outMesh, meshes |-> meshes,
     newMesh |-> newMesh]

\* ------------------------------------------------- the example applications
\* Angles are whole degrees. The axis values read from the virtual input are whole numbers,
\* so every product with a rotation speed is exact.

\* mYaw, mPitch and mLastButtonState of a component as its member initialisers leave them
NoAngles == [mYaw |-> 0, mPitch |-> 0, mLastButtonState |-> FALSE]

\* CameraFlyer's ROTATION_SPEED
ROTATION_SPEED == 3

ObjectRotator_ROTATION_SPEED == 1

FPSCamera_ROTATION_SPEED == 3

PITCH_RANGE == 45

\* the axis values of a frame of the CustomMaterials example
AxisInputs == {-120, 0, 120}

\* the axis values of a frame of the Physics example
MaxVertical == 50

VerticalInputs == {-MaxVertical, -1, 0, 1, MaxVertical}

HorizontalInputs == {-40, 0, 40}

\* the Euler angles, yaw then pitch, of the camera's scene object when FPSCamera is
\* constructed
InitialRotations == { <<0, 0>>, <<-90, -90>>, <<100, 40>> }

\* the number of sub-shaders of the deferred lighting shader
MaxSubShaders == 2

\* the calls of switchMaterial followed
MaxSwitches == 6

\* mPitch and mYaw of FPSCamera as its member initialisers leave them
NoPitchYaw == [mYaw |-> 0, mPitch |-> 0]

\* wrapAngle of CameraFlyer: one turn added below -360, then one turn taken off above 360
wrapAngle(angle) ==
    LET raised == IF angle < -360 THEN angle + 360 ELSE angle
    IN  IF raised > 360 THEN raised - 360 ELSE raised

\* wrapAngle2 of ObjectRotator, the same statements
wrapAngle2(angle) ==
    LET raised == IF angle < -360 THEN angle + 360 ELSE angle
    IN  IF raised > 360 THEN raised - 360 ELSE raised

\* Degree::Wrap of the engine: the angle brought into [0, 360)
Wrap(angle) == angle % 360

\* the comparison and the cursor call at the head of both Update functions: the cursor is
\* hidden or shown when the button's state differs from the last one
CursorAfter(hidden, held, last) == IF held # last THEN held ELSE hidden

\* CameraFlyer::Update, the rotation part
FlyerRotated(angles, camRotating, horizontal, vertical) ==
    IF camRotating
    THEN [mYaw |-> wrapAngle(angles.mYaw + horizontal * ROTATION_SPEED),
          mPitch |-> wrapAngle(angles.mPitch + vertical * ROTATION_SPEED),
          mLastButtonState |-> camRotating]
    ELSE [angles EXCEPT !.mLastButtonState = camRotating]

\* ObjectRotator::Update, the rotation part
RotatorRotated(angles, isRotating, horizontal, vertical) ==
    IF isRotating
    THEN [mYaw |-> wrapAngle2(angles.mYaw - horizontal * ObjectRotator_ROTATION_SPEED),
          mPitch |-> wrapAngle2(angles.mPitch - vertical * ObjectRotator_ROTATION_SPEED),
          mLastButtonState |-> isRotating]
    ELSE [angles EXCEPT !.mLastButtonState = isRotating]

\* ApplyAngles with the pitch always set to pitchMax inside the gap
ApplyAngles_AlwaysMax(angles) ==
    LET yaw == Wrap(angles.mYaw)
        pitch == Wrap(angles.mPitch)
        pitchMax == PITCH_RANGE
        pitchMin == 360 - PITCH_RANGE
    IN  [angles EXCEPT !.mYaw = yaw,
                       !.mPitch = IF pitch > pitchMax /\ pitch < pitchMin
                                  THEN pitchMax
                                  ELSE pitch]

\* FPSCamera::ApplyAngles: both angles wrapped, then the pitch taken out of the gap
ApplyAngles(angles) ==
    LET yaw == Wrap(angles.mYaw)
        pitch == Wrap(angles.mPitch)
        pitchMax == PITCH_RANGE
        pitchMin == 360 - PITCH_RANGE
    IN  [angles EXCEPT !.mYaw = yaw,
                       !.mPitch = IF pitch > pitchMax /\ pitch < pitchMin
                                  THEN IF (pitch - pitchMax) > (pitchMin - pitch)
                                       THEN pitchMin
                                       ELSE pitchMax
                                  ELSE pitch]

\* the sub-shaders of gAssets.deferredLightingShader
deferredLightingShader == 1..MaxSubShaders

\* the names updateGUI shows, by gMaterialIdx
materialNameLookup ==
    << "Standard", "Vertex wobble (Deferred)", "Surface noise (Deferred)",
       "Lambert BRDF (Deferred)", "Surface noise & Lambert BRDF (Forward)" >>

\* the material switchMaterial gives gRenderable, by the new gMaterialIdx
SwitchedMaterial(idx) ==
    CASE idx = 0 -> "standardMaterial"
      [] idx = 1 -> "vertexMaterial"
      [] idx = 2 -> "deferredSurfaceMaterial"
      [] idx = 3 -> "standardMaterial"
      [] idx = 4 -> "forwardMaterial"

\* switchMaterial's overrides with case 4 leaving them in place
SwitchedOverride_NeverCleared(idx, override) ==
    CASE idx = 3 -> override \cup deferredLightingShader
      [] OTHER -> override

\* the renderer's overrides after switchMaterial: set for every sub-shader of the deferred
\* lighting shader in case 3, cleared for each of them in case 4
SwitchedOverride(idx, override) ==
    CASE idx = 3 -> override \cup deferredLightingShader
      [] idx = 4 -> override \ deferredLightingShader
      [] OTHER -> override

Init ==
    /\ entry = "none"
    /\ subdivLevelCount = 0
    /\ meshInstanceCount = 0
    /\ rngSeed = 0
    /\ pc = "idle"
    /\ baseMesh = EmptyMesh
    /\ vertices = <<>>
    /\ normals = <<>>
    /\ indices = <<>>
    /\ outSubdivIndexOffsets = <<>>
    /\ written = {}
    /\ i = 0
    /\ t = 0
    /\ midpoints = NoMidpoints
    /\ newIndices = <<>>
    /\ levels = <<>>
    /\ geoReturned = NoGeo
    /\ rng = 0
    /\ m = 0
    /\ vertexCountPerMesh = 0
    /\ outMesh = EmptyMesh
    /\ meshes = <<>>
    /\ run = 0
    /\ prevOut = <<>>
    /\ newMesh = EmptyMesh
    /\ draws = <<>>
    /\ meshData = NoMeshData
    /\ lengthChecked = {}
    /\ app = "none"
    /\ flyer = NoAngles
    /\ rotator = NoAngles
    /\ fpsCamera = NoPitchYaw
    /\ fpsPc = "idle"
    /\ gMaterialIdx = 0
    /\ material = "none"
    /\ shaderOverride = {}
    /\ guiLabel = "none"
    /\ cursorHidden = FALSE
    /\ switches = 0

\* SubdivideInPlace up to its loop
BeginSubdivide ==
    /\ midpoints' = NoMidpoints
    /\ newIndices' = <<>>
    /\ t' = 0
    /\ pc' = "subdivide"

\* CreateGeospheres(mesh, L, offs) up to its loop: the icosahedron, offset 0, the copies
BeginCreateGeospheres(mesh, L, offs) ==
    /\ subdivLevelCount' = L
    /\ baseMesh' = CreateIcosahedron(mesh)
    /\ outSubdivIndexOffsets' = [offs EXCEPT ![0] = 0]
    /\ written' = {0}
    /\ vertices' = CreateIcosahedron(mesh).vertices
    /\ normals' = CreateIcosahedron(mesh).normals
    /\ indices' = CreateIcosahedron(mesh).indices
    /\ i' = 0
    /\ levels' = << CreateIcosahedron(mesh) >>
    /\ geoReturned' = NoGeo
    /\ pc' = "geo_loop"
    /\ UNCHANGED <<t, midpoints, newIndices>>

\* CreateAsteroidsFromGeospheres(out, L, N, seed, offs, &count) past its assert and up to
\* the loop over the levels of CreateGeospheres; count is what the caller's variable holds
BeginCreateAsteroids(out, L, N, seed, offs, count) ==
    /\ meshInstanceCount' = N
    /\ rngSeed' = seed
    /\ rng' = mt19937(seed)
    /\ draws' = <<>>
    /\ newMesh' = EmptyMesh
    /\ outMesh' = out
    /\ vertexCountPerMesh' = count
    /\ BeginCreateGeospheres(EmptyMesh, L, offs)
    /\ UNCHANGED m

\* the entry called with the given arguments
Begin(e, inMesh, L, N, seed) ==
    /\ entry' = e
    /\ CASE e = "SubdivideInPlace" ->
              /\ baseMesh' = inMesh
              /\ levels' = << inMesh >>
              /\ BeginSubdivide
              /\ UNCHANGED <<subdivLevelCount, meshInstanceCount, rngSeed, vertices, normals,
                             indices, outSubdivIndexOffsets, written, i, geoReturned, rng, m,
                             vertexCountPerMesh, outMesh, meshes, newMesh, draws, meshData,
                             lengthChecked>>
         [] e = "SpherifyInPlace" ->
              /\ baseMesh' = inMesh
              /\ levels' = << inMesh >>
              /\ t' = 0
              /\ pc' = "spherify"
              /\ UNCHANGED <<subdivLevelCount, meshInstanceCount, rngSeed, vertices, normals,
                             indices, outSubdivIndexOffsets, written, i, midpoints,
                             newIndices, geoReturned, rng, m, vertexCountPerMesh, outMesh,
                             meshes, newMesh, draws, meshData, lengthChecked>>
         [] e = "CreateIcosahedron" ->
              /\ baseMesh' = CreateIcosahedron(inMesh)
              /\ levels' = << inMesh >>
              /\ pc' = "done"
              /\ UNCHANGED <<subdivLevelCount, meshInstanceCount, rngSeed, vertices, normals,
                             indices, outSubdivIndexOffsets, written, i, t, midpoints,
                             newIndices, geoReturned, rng, m, vertexCountPerMesh, outMesh,
                             meshes, newMesh, draws, meshData, lengthChecked>>
         [] e = "ComputeAvgNormalsInPlace" ->
              /\ newMesh' = inMesh
              /\ levels' = << inMesh >>
              /\ pc' = "normals"
              /\ UNCHANGED <<subdivLevelCount, meshInstanceCount, rngSeed, baseMesh, vertices,
                             normals, indices, outSubdivIndexOffsets, written, i, t,
                             midpoints, newIndices, geoReturned, rng, m, vertexCountPerMesh,
                             outMesh, meshes, draws, meshData, lengthChecked>>
         [] e = "CreateGeospheres" ->
              /\ BeginCreateGeospheres(EmptyMesh, L, [k \in 0..(L + 1) |-> 0])
              /\ UNCHANGED <<meshInstanceCount, rngSeed, rng, m, vertexCountPerMesh,
                             outMesh, meshes, newMesh, draws, meshData, lengthChecked>>
         [] e = "CreateAsteroidsFromGeospheres" ->
              /\ BeginCreateAsteroids(EmptyMesh, L, N, seed, [k \in 0..(L + 1) |-> 0], 0)
              /\ UNCHANGED <<meshes, meshData, lengthChecked>>
         [] e = "makeMeshes" ->
              \* mIndexOffsets(subdivCount + 2), mVertexCountPerMesh{0}, _meshes, rng = 100
              /\ meshes' = <<>>
              /\ meshData' = NoMeshData
              /\ lengthChecked' = {}
              /\ BeginCreateAsteroids(EmptyMesh, L, N, MakeMeshesSeed,
                                      [k \in 0..(L + 1) |-> 0], 0)

\* assert(subdivLevelCount <= meshInstanceCount) fails and the process aborts
AbortCreateAsteroids(e, L, N, seed) ==
    /\ L > N
    /\ entry' = e
    /\ subdivLevelCount' = L
    /\ meshInstanceCount' = N
    /\ rngSeed' = seed
    /\ pc' = "aborted"
    /\ UNCHANGED <<baseMesh, vertices, normals, indices, outSubdivIndexOffsets, written, i,
                   t, midpoints, newIndices, levels, geoReturned, rng, m,
                   vertexCountPerMesh, outMesh, meshes, newMesh, draws, meshData,
                   lengthChecked>>

\* ---------------------------------------------------------------- the calls
CallSubdivideInPlace ==
    /\ pc = "idle"
    /\ \E inMesh \in InputMeshes \cup InvalidMeshes :
          Begin("SubdivideInPlace", inMesh, 0, 0, 0)
    /\ run' = 1
    /\ prevOut' = <<>>
    /\ UNCHANGED exampleVars

CallCreateIcosahedron ==
    /\ pc = "idle"
    /\ \E inMesh \in IcosahedronInputs : Begin("CreateIcosahedron", inMesh, 0, 0, 0)
    /\ run' = 1
    /\ prevOut' = <<>>
    /\ UNCHANGED exampleVars

CallSpherifyInPlace ==
    /\ pc = "idle"
    /\ \E inMesh \in SpherifyInputs : Begin("SpherifyInPlace", inMesh, 0, 0, 0)
    /\ run' = 1
    /\ prevOut' = <<>>
    /\ UNCHANGED exampleVars

CallComputeAvgNormalsInPlace ==
    /\ pc = "idle"
    /\ \E inMesh \in NormalsInputs : Begin("ComputeAvgNormalsInPlace", inMesh, 0, 0, 0)
    /\ run' = 1
    /\ prevOut' = <<>>
    /\ UNCHANGED exampleVars

CallCreateGeospheres ==
    /\ pc = "idle"
    /\ \E L \in 0..MaxSubdiv : Begin("CreateGeospheres", EmptyMesh, L, 0, 0)
    /\ run' = 1
    /\ prevOut' = <<>>
    /\ UNCHANGED exampleVars

\* with assert compiled out (NDEBUG) the call goes on whatever the counts
CallCreateAsteroidsFromGeospheres ==
    /\ pc = "idle"
    /\ \E L \in 0..MaxAsteroidSubdiv, N \in 0..MaxInstances, seed \in Seeds :
          \/ Begin("CreateAsteroidsFromGeospheres", EmptyMesh, L, N, seed)
          \/ AbortCreateAsteroids("CreateAsteroidsFromGeospheres", L, N, seed)
    /\ run' = 1
    /\ prevOut' = <<>>
    /\ UNCHANGED exampleVars

CallMakeMeshes ==
    /\ pc = "idle"
    /\ \E L \in 0..MaxAsteroidSubdiv, N \in 0..MaxInstances :
          \/ Begin("makeMeshes", EmptyMesh, L, N, MakeMeshesSeed)
          \/ AbortCreateAsteroids("makeMeshes", L, N, MakeMeshesSeed)
    /\ run' = 1
    /\ prevOut' = <<>>
    /\ UNCHANGED exampleVars

\* the caller calls the same entry a second time with the same arguments; an in-place
\* ComputeAvgNormalsInPlace is given the mesh it has left
CallAgain ==
    /\ pc = "done"
    /\ run = 1
    /\ Begin(entry, IF entry = "ComputeAvgNormalsInPlace" THEN newMesh ELSE levels[1],
             subdivLevelCount, meshInstanceCount, rngSeed)
    /\ run' = run + 1
    /\ prevOut' = Output
    /\ UNCHANGED exampleVars

\* CreateAsteroidsFromGeospheres called once more, with the same level and seed and more
\* instances
CallWithMoreInstances ==
    /\ pc = "done"
    /\ run = 1
    /\ entry = "CreateAsteroidsFromGeospheres"
    /\ \E N \in (meshInstanceCount + 1)..MaxInstances :
          Begin(entry, EmptyMesh, subdivLevelCount, N, rngSeed)
    /\ run' = 3
    /\ prevOut' = Output
    /\ UNCHANGED exampleVars

\* --------------------------------------------------------- SubdivideInPlace
\* triangle tt names an index past the end of the vertices as they are now
NamesBeyond(mesh, tt) ==
    \E c \in 0..2 : At(mesh.indices, tt*3 + c) >= Len(mesh.vertices)

\* what the reads of triangle tt past the end, if there are any, can return
Beyond(mesh, tt) ==
    IF NamesBeyond(mesh, tt) THEN GarbageVertices ELSE {Vtx(Z0, Z0, Z0)}

\* one iteration of SubdivideInPlace's loop (the assert has passed or is compiled out)
SubdivideStep ==
    /\ pc = "subdivide"
    /\ t < Len(baseMesh.indices) \div 3
    /\ \E beyond \in Beyond(baseMesh, t) :
          LET r == SubdivideTriangle(baseMesh.vertices, baseMesh.indices, midpoints, t,
                                     beyond)
          IN  /\ baseMesh' = [baseMesh EXCEPT !.vertices = r.vertices]
              /\ midpoints' = r.midpoints
              /\ newIndices' = newIndices \o r.emitted
    /\ t' = t + 1
    /\ UNCHANGED <<entry, subdivLevelCount, meshInstanceCount, rngSeed, pc, vertices,
                   normals, indices, outSubdivIndexOffsets, written, i, levels, geoReturned,
                   rng, m, vertexCountPerMesh, outMesh, meshes, run, prevOut, newMesh,
                   draws, meshData, lengthChecked>>
    /\ UNCHANGED exampleVars

\* assert(outMesh->indices.size() % 3 == 0) fails and the process aborts
SubdivideAssert ==
    /\ pc = "subdivide"
    /\ t = 0
    /\ Len(baseMesh.indices) % 3 # 0
    /\ pc' = "aborted"
    /\ UNCHANGED <<entry, subdivLevelCount, meshInstanceCount, rngSeed, baseMesh, vertices,
                   normals, indices, outSubdivIndexOffsets, written, i, t, midpoints,
                   newIndices, levels, geoReturned, rng, m, vertexCountPerMesh, outMesh,
                   meshes, run, prevOut, newMesh, draws, meshData, lengthChecked>>
    /\ UNCHANGED exampleVars

\* the read past the end of the vertices ends the process
SubdivideFault ==
    /\ pc = "subdivide"
    /\ t < Len(baseMesh.indices) \div 3
    /\ NamesBeyond(baseMesh, t)
    /\ \E beyond \in Beyond(baseMesh, t) :
          SubdivideTriangle(baseMesh.vertices, baseMesh.indices, midpoints, t, beyond).fault
    /\ pc' = "aborted"
    /\ UNCHANGED <<entry, subdivLevelCount, meshInstanceCount, rngSeed, baseMesh, vertices,
                   normals, indices, outSubdivIndexOffsets, written, i, t, midpoints,
                   newIndices, levels, geoReturned, rng, m, vertexCountPerMesh, outMesh,
                   meshes, run, prevOut, newMesh, draws, meshData, lengthChecked>>
    /\ UNCHANGED exampleVars

\* SubdivideInPlace called by itself returns: the swap
SubdivideReturn ==
    /\ pc = "subdivide"
    /\ entry = "SubdivideInPlace"
    /\ t = Len(baseMesh.indices) \div 3
    /\ baseMesh' = [baseMesh EXCEPT !.indices = newIndices]
    /\ newIndices' = baseMesh.indices
    /\ levels' = Append(levels, baseMesh')
    /\ pc' = "done"
    /\ UNCHANGED <<entry, subdivLevelCount, meshInstanceCount, rngSeed, vertices, normals,
                   indices, outSubdivIndexOffsets, written, i, t, midpoints, geoReturned,
                   rng, m, vertexCountPerMesh, outMesh, meshes, run, prevOut, newMesh,
                   draws, meshData, lengthChecked>>
    /\ UNCHANGED exampleVars

\* ----------------------------------------------------------- SpherifyInPlace
\* one iteration of SpherifyInPlace's loop; at the origin n is radius / 0, infinite, and
\* the three products are not numbers
SpherifyStep ==
    /\ pc = "spherify"
    /\ t < Len(baseMesh.vertices)
    /\ baseMesh' = [baseMesh EXCEPT !.vertices[t + 1] = SpherifyVertex(@)]
    /\ t' = t + 1
    /\ UNCHANGED <<entry, subdivLevelCount, meshInstanceCount, rngSeed, pc, vertices,
                   normals, indices, outSubdivIndexOffsets, written, i, midpoints,
                   newIndices, levels, geoReturned, rng, m, vertexCountPerMesh, outMesh,
                   meshes, run, prevOut, newMesh, draws, meshData, lengthChecked>>
    /\ UNCHANGED exampleVars

\* the division by zero traps, where the build has unmasked that exception
SpherifyTrap ==
    /\ pc = "spherify"
    /\ t < Len(baseMesh.vertices)
    /\ IsZeroVec(baseMesh.vertices[t + 1])
    /\ pc' = "aborted"
    /\ UNCHANGED <<entry, subdivLevelCount, meshInstanceCount, rngSeed, baseMesh, vertices,
                   normals, indices, outSubdivIndexOffsets, written, i, t, midpoints,
                   newIndices, levels, geoReturned, rng, m, vertexCountPerMesh, outMesh,
                   meshes, run, prevOut, newMesh, draws, meshData, lengthChecked>>
    /\ UNCHANGED exampleVars

\* SpherifyInPlace called by itself returns
SpherifyReturn ==
    /\ pc = "spherify"
    /\ t = Len(baseMesh.vertices)
    /\ pc' = "done"
    /\ UNCHANGED <<entry, subdivLevelCount, meshInstanceCount, rngSeed, baseMesh, vertices,
                   normals, indices, outSubdivIndexOffsets, written, i, t, midpoints,
                   newIndices, levels, geoReturned, rng, m, vertexCountPerMesh, outMesh,
                   meshes, run, prevOut, newMesh, draws, meshData, lengthChecked>>
    /\ UNCHANGED exampleVars

\* --------------------------------------------------------- CreateGeospheres
\* loop head, i < subdivLevelCount: record the offset and enter SubdivideInPlace
GeoLevelBegin ==
    /\ pc = "geo_loop"
    /\ i < subdivLevelCount
    /\ outSubdivIndexOffsets' = RecordOffset(outSubdivIndexOffsets, i + 1, indices)
    /\ written' = written \cup {i + 1}
    /\ BeginSubdivide
    /\ UNCHANGED <<entry, subdivLevelCount, meshInstanceCount, rngSeed, baseMesh, vertices,
                   normals, indices, i, levels, geoReturned, rng, m, vertexCountPerMesh,
                   outMesh, meshes, run, prevOut, newMesh, draws, meshData, lengthChecked>>
    /\ UNCHANGED exampleVars

\* SubdivideInPlace returns (the swap), and CreateGeospheres appends the level
GeoLevelEnd ==
    /\ pc = "subdivide"
    /\ entry # "SubdivideInPlace"
    /\ t = Len(baseMesh.indices) \div 3
    /\ baseMesh' = [baseMesh EXCEPT !.indices = newIndices]
    /\ newIndices' = baseMesh.indices
    /\ vertices' = vertices \o baseMesh'.vertices
    /\ normals' = normals \o ZeroNormals(Len(vertices') - Len(normals))
    /\ indices' = indices \o OffsetIndices(baseMesh'.indices, Len(vertices))
    /\ levels' = Append(levels, baseMesh')
    /\ i' = i + 1
    /\ pc' = "geo_loop"
    /\ UNCHANGED <<entry, subdivLevelCount, meshInstanceCount, rngSeed,
                   outSubdivIndexOffsets, written, t, midpoints, geoReturned, rng, m,
                   vertexCountPerMesh, outMesh, meshes, run, prevOut, newMesh, draws,
                   meshData, lengthChecked>>
    /\ UNCHANGED exampleVars

\* loop exit: the last offset, SpherifyInPlace(outMesh), the three swaps, return
GeoFinish ==
    /\ pc = "geo_loop"
    /\ i = subdivLevelCount
    /\ outSubdivIndexOffsets' = RecordOffset(outSubdivIndexOffsets, subdivLevelCount + 1, indices)
    /\ written' = written \cup {subdivLevelCount + 1}
    /\ LET sph == SpherifyInPlace(baseMesh)
       IN  /\ baseMesh' = [sph EXCEPT !.indices = indices, !.vertices = vertices,
                                      !.normals = normals]
           /\ indices' = sph.indices
           /\ vertices' = sph.vertices
           /\ normals' = sph.normals
    /\ geoReturned' = [indices |-> baseMesh'.indices, offsets |-> outSubdivIndexOffsets']
    /\ pc' = "geo_done"
    /\ UNCHANGED <<entry, subdivLevelCount, meshInstanceCount, rngSeed, i, t, midpoints,
                   newIndices, levels, rng, m, vertexCountPerMesh, outMesh, meshes, run,
                   prevOut, newMesh, draws, meshData, lengthChecked>>
    /\ UNCHANGED exampleVars

\* CreateGeospheres has returned: to its caller's caller, or on into
\* CreateAsteroidsFromGeospheres up to its loop
GeoReturn ==
    /\ pc = "geo_done"
    /\ IF entry = "CreateGeospheres"
       THEN /\ pc' = "done"
            /\ UNCHANGED <<vertices, normals, m, vertexCountPerMesh>>
       ELSE /\ vertexCountPerMesh' = VertexCountPerMesh(baseMesh)
            /\ vertices' = <<>>
            /\ normals' = <<>>
            /\ m' = 0
            /\ pc' = "displace"
    /\ UNCHANGED <<entry, subdivLevelCount, meshInstanceCount, rngSeed, baseMesh, indices,
                   outSubdivIndexOffsets, written, i, t, midpoints, newIndices, levels,
                   geoReturned, rng, outMesh, meshes, run, prevOut, newMesh, draws,
                   meshData, lengthChecked>>
    /\ UNCHANGED exampleVars

\* -------------------------------------------- CreateAsteroidsFromGeospheres
\* the loop over the instances, up to ComputeAvgNormalsInPlace: the copy of the base
\* mesh, the two draws, the displacement
DisplaceStep ==
    /\ pc = "displace"
    /\ m < meshInstanceCount
    /\ newMesh' = NewMesh(baseMesh, rng)
    /\ rng' = DrawParameters(rng).rng
    /\ draws' = draws \o [k \in 1..Len(DrawParameters(rng).drawn) |->
                             [instance |-> m,
                              kind     |-> DrawParameters(rng).drawn[k].kind,
                              state    |-> DrawParameters(rng).drawn[k].state]]
    /\ pc' = "normals"
    /\ UNCHANGED <<entry, subdivLevelCount, meshInstanceCount, rngSeed, baseMesh, vertices,
                   normals, indices, outSubdivIndexOffsets, written, i, t, midpoints,
                   newIndices, levels, geoReturned, m, vertexCountPerMesh, outMesh, meshes,
                   run, prevOut, meshData, lengthChecked>>
    /\ UNCHANGED exampleVars

\* ------------------------------------------------- ComputeAvgNormalsInPlace
\* the first two loops: zero, accumulate (the assert has passed or is compiled out)
NormalsAccumulate ==
    /\ pc = "normals"
    /\ newMesh' = AccumulateNormals(newMesh)
    /\ pc' = "normalize"
    /\ UNCHANGED <<entry, subdivLevelCount, meshInstanceCount, rngSeed, baseMesh, vertices,
                   normals, indices, outSubdivIndexOffsets, written, i, t, midpoints,
                   newIndices, levels, geoReturned, rng, m, vertexCountPerMesh, outMesh,
                   meshes, run, prevOut, draws, meshData, lengthChecked>>
    /\ UNCHANGED exampleVars

\* assert(outMesh->indices.size() % 3 == 0) fails and the process aborts
NormalsAssert ==
    /\ pc = "normals"
    /\ Len(newMesh.indices) % 3 # 0
    /\ pc' = "aborted"
    /\ UNCHANGED <<entry, subdivLevelCount, meshInstanceCount, rngSeed, baseMesh, vertices,
                   normals, indices, outSubdivIndexOffsets, written, i, t, midpoints,
                   newIndices, levels, geoReturned, rng, m, vertexCountPerMesh, outMesh,
                   meshes, run, prevOut, newMesh, draws, meshData, lengthChecked>>
    /\ UNCHANGED exampleVars

\* the read or the write past the end of the vertices or normals ends the process
NormalsFault ==
    /\ pc = "normals"
    /\ \E k \in 1..(3 * (Len(newMesh.indices) \div 3)) :
          \/ newMesh.indices[k] >= Len(newMesh.vertices)
          \/ newMesh.indices[k] >= Len(newMesh.normals)
    /\ pc' = "aborted"
    /\ UNCHANGED <<entry, subdivLevelCount, meshInstanceCount, rngSeed, baseMesh, vertices,
                   normals, indices, outSubdivIndexOffsets, written, i, t, midpoints,
                   newIndices, levels, geoReturned, rng, m, vertexCountPerMesh, outMesh,
                   meshes, run, prevOut, newMesh, draws, meshData, lengthChecked>>
    /\ UNCHANGED exampleVars

\* the third loop, and ComputeAvgNormalsInPlace called by itself returns
NormalizeReturn ==
    /\ pc = "normalize"
    /\ entry = "ComputeAvgNormalsInPlace"
    /\ newMesh' = [newMesh EXCEPT !.normals = NormalizeNormals(newMesh.normals)]
    /\ pc' = "done"
    /\ UNCHANGED <<entry, subdivLevelCount, meshInstanceCount, rngSeed, baseMesh, vertices,
                   normals, indices, outSubdivIndexOffsets, written, i, t, midpoints,
                   newIndices, levels, geoReturned, rng, m, vertexCountPerMesh, outMesh,
                   meshes, run, prevOut, draws, meshData, lengthChecked>>
    /\ UNCHANGED exampleVars

\* the third loop, and the rest of the loop body of CreateAsteroidsFromGeospheres: the
\* two inserts; newMesh goes out of scope
NormalizeInsert ==
    /\ pc = "normalize"
    /\ entry # "ComputeAvgNormalsInPlace"
    /\ vertices' = InsertAtEnd(vertices, newMesh.vertices)
    /\ normals' = InsertAtEnd(normals, NormalizeNormals(newMesh.normals))
    /\ newMesh' = EmptyMesh
    /\ m' = m + 1
    /\ pc' = "displace"
    /\ UNCHANGED <<entry, subdivLevelCount, meshInstanceCount, rngSeed, baseMesh, indices,
                   outSubdivIndexOffsets, written, i, t, midpoints, newIndices, levels,
                   geoReturned, rng, vertexCountPerMesh, outMesh, meshes, run, prevOut,
                   draws, meshData, lengthChecked>>
    /\ UNCHANGED exampleVars

\* loop exit: copy to the output, CreateUVMap, return; makeMeshes goes on past its
\* assert(_meshes.vertices.size() == _meshes.normals.size()), which a build with NDEBUG
\* does not evaluate, to its loop
AsteroidsFinish ==
    /\ pc = "displace"
    /\ m = meshInstanceCount
    /\ outMesh' = CopyToOutput(outMesh, baseMesh, vertices, normals)
    /\ baseMesh' = [baseMesh EXCEPT !.indices = outMesh.indices]
    /\ vertices' = outMesh.vertices
    /\ normals' = outMesh.normals
    /\ IF entry = "makeMeshes"
       THEN \E ndebug \in BOOLEAN :
               /\ lengthChecked' = IF ndebug THEN {} ELSE {"vertices", "normals"}
               /\ pc' = IF ~ndebug /\ Len(outMesh'.vertices) # Len(outMesh'.normals)
                        THEN "aborted" ELSE "pack"
               /\ i' = 0
       ELSE /\ pc' = "done"
            /\ UNCHANGED <<i, lengthChecked>>
    /\ UNCHANGED <<entry, subdivLevelCount, meshInstanceCount, rngSeed, indices,
                   outSubdivIndexOffsets, written, t, midpoints, newIndices, levels,
                   geoReturned, rng, m, vertexCountPerMesh, meshes, run, prevOut, newMesh,
                   draws, meshData>>
    /\ UNCHANGED exampleVars

\* ---------------------------------------------------------------- makeMeshes
\* the loop over the instances, up to CalculateTangents: the mesh data is created and
\* positions, normals, texture coordinates and indices are copied in
PackWrite ==
    /\ pc = "pack"
    /\ i < meshInstanceCount
    /\ meshData' = WriteMeshData(outMesh, outSubdivIndexOffsets, subdivLevelCount,
                                 vertexCountPerMesh, i)
    /\ pc' = "tangents"
    /\ UNCHANGED <<entry, subdivLevelCount, meshInstanceCount, rngSeed, baseMesh, vertices,
                   normals, indices, outSubdivIndexOffsets, written, i, t, midpoints,
                   newIndices, levels, geoReturned, rng, m, vertexCountPerMesh, outMesh,
                   meshes, run, prevOut, newMesh, draws, lengthChecked>>
    /\ UNCHANGED exampleVars

\* CalculateTangents(meshData)
PackTangents ==
    /\ pc = "tangents"
    /\ meshData' = CalculateTangents(meshData)
    /\ pc' = "create"
    /\ UNCHANGED <<entry, subdivLevelCount, meshInstanceCount, rngSeed, baseMesh, vertices,
                   normals, indices, outSubdivIndexOffsets, written, i, t, midpoints,
                   newIndices, levels, geoReturned, rng, m, vertexCountPerMesh, outMesh,
                   meshes, run, prevOut, newMesh, draws, lengthChecked>>
    /\ UNCHANGED exampleVars

\* Mesh::create(meshData); meshes.push_back(mesh); meshData goes out of scope
PackCreate ==
    /\ pc = "create"
    /\ meshes' = Append(meshes, meshData)
    /\ meshData' = NoMeshData
    /\ i' = i + 1
    /\ pc' = "pack"
    /\ UNCHANGED <<entry, subdivLevelCount, meshInstanceCount, rngSeed, baseMesh, vertices,
                   normals, indices, outSubdivIndexOffsets, written, t, midpoints,
                   newIndices, levels, geoReturned, rng, m, vertexCountPerMesh, outMesh,
                   run, prevOut, newMesh, draws, lengthChecked>>
    /\ UNCHANGED exampleVars

PackFinish ==
    /\ pc = "pack"
    /\ i = meshInstanceCount
    /\ pc' = "done"
    /\ UNCHANGED <<entry, subdivLevelCount, meshInstanceCount, rngSeed, baseMesh, vertices,
                   normals, indices, outSubdivIndexOffsets, written, i, t, midpoints,
                   newIndices, levels, geoReturned, rng, m, vertexCountPerMesh, outMesh,
                   meshes, run, prevOut, newMesh, draws, meshData, lengthChecked>>
    /\ UNCHANGED exampleVars

Next ==
    \/ CallSubdivideInPlace
    \/ CallCreateIcosahedron
    \/ CallSpherifyInPlace
    \/ CallComputeAvgNormalsInPlace
    \/ CallCreateGeospheres
    \/ CallCreateAsteroidsFromGeospheres
    \/ CallMakeMeshes
    \/ CallAgain
    \/ CallWithMoreInstances
    \/ SubdivideStep
    \/ SubdivideAssert
    \/ SubdivideFault
    \/ SubdivideReturn
    \/ SpherifyStep
    \/ SpherifyTrap
    \/ SpherifyReturn
    \/ GeoLevelBegin
    \/ GeoLevelEnd
    \/ GeoFinish
    \/ GeoReturn
    \/ DisplaceStep
    \/ NormalsAccumulate
    \/ NormalsAssert
    \/ NormalsFault
    \/ NormalizeReturn
    \/ NormalizeInsert
    \/ AsteroidsFinish
    \/ PackWrite
    \/ PackTangents
    \/ PackCreate
    \/ PackFinish

Spec == Init /\ [][Next]_vars

\* ------------------------------------------- actions of the example applications
\* CustomMaterials, main up to runMainLoop: setUp3DScene gives gRenderable the standard
\* material and adds the ObjectRotator (its scene object is not rotated) and the
\* CameraFlyer; updateGUI shows the name of material 0
SetUpCustomMaterials ==
    /\ app = "none"
    /\ app' = "CustomMaterials"
    /\ material' = "standardMaterial"
    /\ rotator' = NoAngles
    /\ flyer' = NoAngles
    /\ guiLabel' = materialNameLookup[gMaterialIdx + 1]
    /\ UNCHANGED <<fpsCamera, fpsPc, gMaterialIdx, shaderOverride, cursorHidden, switches>>
    /\ UNCHANGED geometryVars

\* CameraFlyer::Update in a frame of CustomMaterials
CameraFlyerUpdate ==
    /\ app = "CustomMaterials"
    /\ \E camRotating \in BOOLEAN, horizontal \in AxisInputs, vertical \in AxisInputs :
          /\ cursorHidden' = CursorAfter(cursorHidden, camRotating, flyer.mLastButtonState)
          /\ flyer' = FlyerRotated(flyer, camRotating, horizontal, vertical)
    /\ UNCHANGED <<app, rotator, fpsCamera, fpsPc, gMaterialIdx, material, shaderOverride,
                   guiLabel, switches>>
    /\ UNCHANGED geometryVars

\* ObjectRotator::Update in a frame of CustomMaterials
ObjectRotatorUpdate ==
    /\ app = "CustomMaterials"
    /\ \E isRotating \in BOOLEAN, horizontal \in AxisInputs, vertical \in AxisInputs :
          /\ cursorHidden' = CursorAfter(cursorHidden, isRotating, rotator.mLastButtonState)
          /\ rotator' = RotatorRotated(rotator, isRotating, horizontal, vertical)
    /\ UNCHANGED <<app, flyer, fpsCamera, fpsPc, gMaterialIdx, material, shaderOverride,
                   guiLabel, switches>>
    /\ UNCHANGED geometryVars

\* switchMaterial, called when the SwitchMaterial button is released
SwitchMaterial ==
    /\ app = "CustomMaterials"
    /\ switches < MaxSwitches
    /\ gMaterialIdx' = (gMaterialIdx + 1) % 5
    /\ material' = SwitchedMaterial(gMaterialIdx')
    /\ shaderOverride' = SwitchedOverride(gMaterialIdx', shaderOverride)
    /\ guiLabel' = materialNameLookup[gMaterialIdx' + 1]
    /\ switches' = switches + 1
    /\ UNCHANGED <<app, flyer, rotator, fpsCamera, fpsPc, cursorHidden>>
    /\ UNCHANGED geometryVars

\* Physics, setUpScene: the FPSCamera is constructed on the camera's scene object; its
\* constructor takes the Euler angles of the object and calls ApplyAngles
SetUpPhysics ==
    /\ app = "none"
    /\ app' = "Physics"
    /\ \E rotation \in InitialRotations :
          fpsCamera' = [fpsCamera EXCEPT !.mYaw = rotation[1], !.mPitch = rotation[2]]
    /\ fpsPc' = "ApplyAngles"
    /\ UNCHANGED <<flyer, rotator, gMaterialIdx, material, shaderOverride, guiLabel,
                   cursorHidden, switches>>
    /\ UNCHANGED geometryVars

\* FPSCamera::Update in a frame of Physics, up to its call of ApplyAngles
FPSCameraUpdate ==
    /\ app = "Physics"
    /\ fpsPc = "idle"
    /\ \E horizontal \in HorizontalInputs, vertical \in VerticalInputs :
          fpsCamera' = [fpsCamera EXCEPT
                           !.mYaw = @ + horizontal * FPSCamera_ROTATION_SPEED,
                           !.mPitch = @ + vertical * FPSCamera_ROTATION_SPEED]
    /\ fpsPc' = "ApplyAngles"
    /\ UNCHANGED <<app, flyer, rotator, gMaterialIdx, material, shaderOverride, guiLabel,
                   cursorHidden, switches>>
    /\ UNCHANGED geometryVars

\* FPSCamera::ApplyAngles, called by the constructor and by Update
FPSCameraApplyAngles ==
    /\ app = "Physics"
    /\ fpsPc = "ApplyAngles"
    /\ fpsCamera' = ApplyAngles(fpsCamera)
    /\ fpsPc' = "idle"
    /\ UNCHANGED <<app, flyer, rotator, gMaterialIdx, material, shaderOverride, guiLabel,
                   cursorHidden, switches>>
    /\ UNCHANGED geometryVars

NextExamples ==
    \/ SetUpCustomMaterials
    \/ CameraFlyerUpdate
    \/ ObjectRotatorUpdate
    \/ SwitchMaterial
    \/ SetUpPhysics
    \/ FPSCameraUpdate
    \/ FPSCameraApplyAngles

SpecExamples == Init /\ [][NextExamples]_vars

\* ------------------------------------------------------------ mesh topology
TriangleCount(inds) == Len(inds) \div 3

\* the three undirected edges of triangle k, in the order (v0v1, v1v2, v2v0)
UEdge(inds, k, c) == {At(inds, 3 * k + c), At(inds, 3 * k + ((c + 1) % 3))}

UEdgesOfTriangle(inds, k) == {UEdge(inds, k, c) : c \in 0..2}

\* the distinct undirected edges of the first n triangles
UEdgesOfFirst(inds, n) == UNION {UEdgesOfTriangle(inds, k) : k \in 0..(n - 1)}

UEdges(inds) == UEdgesOfFirst(inds, TriangleCount(inds))

\* the corners of triangle k
CornersOf(inds, k) == {At(inds, 3 * k), At(inds, 3 * k + 1), At(inds, 3 * k + 2)}

\* the triangles that have vertex a as a corner
TrianglesAt(inds, a) == {(j - 1) \div 3 : j \in {jj \in 1..Len(inds) : inds[jj] = a}}

\* every triangle has three distinct corners, and every undirected edge {a, b} of a
\* triangle belongs to exactly two triangles (looked up among the triangles at a)
ClosedMesh(inds) ==
    /\ \A k \in 0..(TriangleCount(inds) - 1) : Cardinality(CornersOf(inds, k)) = 3
    /\ \A a \in Range(inds) :
          LET around == TrianglesAt(inds, a)
          IN  \A b \in (UNION {CornersOf(inds, k) : k \in around}) \ {a} :
                  Cardinality({k \in around : b \in CornersOf(inds, k)}) = 2

\* the index list is a triangle list over the vertices of the mesh
ValidTopology(mesh) ==
    /\ Len(mesh.indices) % 3 = 0
    /\ \A k \in 1..Len(mesh.indices) : mesh.indices[k] < Len(mesh.vertices)

\* level k's slice of the buffer CreateGeospheres returned
LevelSlice(k) ==
    Slice(baseMesh.indices, outSubdivIndexOffsets[k], outSubdivIndexOffsets[k + 1])

\* the mesh SubdivideInPlace is working on, as it was given
PassInput == levels[Len(levels)]

\* the midpoint index SubdivideInPlace emitted for edge c of input triangle k:
\* m0 at child position 1, m1 at 5, m2 at 2
EmittedMidpoint(k, c) ==
    At(newIndices, 12 * k + (CASE c = 0 -> 1 [] c = 1 -> 5 [] c = 2 -> 2))

\* the total vertex count of levels 0 .. k-1
RECURSIVE BaseVertex(_)
BaseVertex(k) == IF k = 0 THEN 0 ELSE BaseVertex(k - 1) + Len(levels[k].vertices)

\* ------------------------------------------------------------------ claims

\* C1: when CreateGeospheres returns, in every level's slice [offset[k], offset[k+1])
\* of the index buffer every undirected edge of a triangle belongs to exactly two
\* triangles of that slice.
C1_ClosedMesh ==
    pc = "geo_done" =>
        \A k \in 0..subdivLevelCount : ClosedMesh(LevelSlice(k))

C1_Witness == pc = "geo_done" /\ subdivLevelCount = 2

\* C2: within one SubdivideInPlace pass exactly one vertex has been added per distinct
\* undirected edge of the triangles processed so far, and the midpoint returned for an
\* edge of the last processed triangle is the one returned for the same undirected
\* edge (in either direction) of any triangle processed before.
C2_MidpointDedup ==
    (pc = "subdivide" /\ t > 0) =>
        /\ Len(baseMesh.vertices)
             = Len(PassInput.vertices) + Cardinality(UEdgesOfFirst(baseMesh.indices, t))
        /\ \A k \in 0..(t - 1), c \in 0..2, d \in 0..2 :
              UEdge(baseMesh.indices, k, c) = UEdge(baseMesh.indices, t - 1, d)
                  => EmittedMidpoint(k, c) = EmittedMidpoint(t - 1, d)

\* a second triangle has asked for an edge the first one had asked for, reversed
C2_Witness ==
    /\ pc = "subdivide"
    /\ t >= 2
    /\ \E k \in 0..(t - 2), c \in 0..2, d \in 0..2 :
          /\ At(baseMesh.indices, 3 * k + c) = At(baseMesh.indices, 3 * (t - 1) + ((d + 1) % 3))
          /\ At(baseMesh.indices, 3 * k + ((c + 1) % 3)) = At(baseMesh.indices, 3 * (t - 1) + d)
          /\ At(baseMesh.indices, 3 * k + c) # At(baseMesh.indices, 3 * k + ((c + 1) % 3))

\* the entries that start from the icosahedron
FromIcosahedron ==
    entry \in {"CreateGeospheres", "CreateAsteroidsFromGeospheres", "makeMeshes"}

\* C3: one SubdivideInPlace call on a mesh with V vertices, E distinct edges and F
\* triangles leaves V+E vertices and 4F triangles; from the icosahedron one call gives
\* 42 vertices and 80 triangles, two calls 162 vertices and 320 triangles.
C3_GrowthLaw ==
    /\ \A k \in 1..(Len(levels) - 1) :
          /\ Len(levels[k + 1].vertices)
               = Len(levels[k].vertices) + Cardinality(UEdges(levels[k].indices))
          /\ TriangleCount(levels[k + 1].indices) = 4 * TriangleCount(levels[k].indices)
          /\ Len(levels[k + 1].indices) = 12 * TriangleCount(levels[k].indices)
    /\ (FromIcosahedron /\ Len(levels) >= 1) =>
          /\ Len(levels[1].vertices) = 12
          /\ Cardinality(UEdges(levels[1].indices)) = 30
          /\ TriangleCount(levels[1].indices) = 20
    /\ (FromIcosahedron /\ Len(levels) >= 2) =>
          /\ Len(levels[2].vertices) = 42
          /\ TriangleCount(levels[2].indices) = 80
    /\ (FromIcosahedron /\ Len(levels) >= 3) =>
          /\ Len(levels[3].vertices) = 162
          /\ TriangleCount(levels[3].indices) = 320

C3_Witness == entry = "CreateGeospheres" /\ Len(levels) = 3 /\ pc = "geo_done"

\* C4: every vertex of the pool CreateGeospheres returns lies at distance 1 from the
\* origin.
C4_Spherified ==
    pc = "geo_done" =>
        \A k \in 1..Len(baseMesh.vertices) : OnUnitSphere(baseMesh.vertices[k])

\* C5: CreateGeospheres writes exactly the entries 0..L+1 of the offset array, with
\* offset[0] = 0, offsets strictly increasing, offset[k+1] - offset[k] the index count
\* 60 * 4^k of level k, and offset[L+1] the length of the returned index buffer.
C5_Offsets ==
    pc = "geo_done" =>
        /\ DOMAIN outSubdivIndexOffsets = 0..(subdivLevelCount + 1)
        /\ written = 0..(subdivLevelCount + 1)
        /\ outSubdivIndexOffsets[0] = 0
        /\ \A k \in 0..subdivLevelCount :
              /\ outSubdivIndexOffsets[k] < outSubdivIndexOffsets[k + 1]
              /\ outSubdivIndexOffsets[k + 1] - outSubdivIndexOffsets[k] = 60 * 4^k
              /\ outSubdivIndexOffsets[k + 1] - outSubdivIndexOffsets[k]
                   = Len(levels[k + 1].indices)
        /\ outSubdivIndexOffsets[subdivLevelCount + 1] = Len(baseMesh.indices)

C5_Witness == pc = "geo_done" /\ subdivLevelCount = 2 /\ outSubdivIndexOffsets[3] = 1260

\* C6: in the returned buffers level k's index slice is level k's own triangle list
\* with each index raised by the vertex count of levels 0..k-1, level k's vertices
\* follow those of levels 0..k-1, and appending a level changes no vertex and no
\* index already in the combined buffers.
C6_SlicesAreLevels ==
    pc = "geo_done" =>
        \A k \in 0..subdivLevelCount :
            /\ Len(LevelSlice(k)) = Len(levels[k + 1].indices)
            /\ \A j \in 1..Len(levels[k + 1].indices) :
                  LevelSlice(k)[j] = levels[k + 1].indices[j] + BaseVertex(k)
            /\ \A j \in 1..Len(levels[k + 1].vertices) :
                  baseMesh.vertices[BaseVertex(k) + j] = levels[k + 1].vertices[j]

C6_AppendOnly ==
    (pc \in {"geo_loop", "subdivide"} /\ pc' \in {"geo_loop", "subdivide"}) =>
        /\ Len(vertices') >= Len(vertices)
        /\ Len(indices') >= Len(indices)
        /\ SubSeq(vertices', 1, Len(vertices)) = vertices
        /\ SubSeq(indices', 1, Len(indices)) = indices

C6_Appended == [](C6_SlicesAreLevels) /\ [][C6_AppendOnly]_vars

C6_Witness == pc = "geo_done" /\ subdivLevelCount = 2 /\ At(LevelSlice(2), 0) = 54

\* CreateAsteroidsFromGeospheres has returned
AsteroidsReturned ==
    /\ entry \in {"CreateAsteroidsFromGeospheres", "makeMeshes"}
    /\ pc \in {"pack", "tangents", "create", "done"}

\* C7 as stated: the reported vertexCountPerMesh, which every packed mesh has as its
\* numVertices, is the vertex count of the level-L geosphere.
C7_LevelVertexCount ==
    AsteroidsReturned =>
        /\ vertexCountPerMesh = Len(levels[subdivLevelCount + 1].vertices)
        /\ \A k \in 1..Len(meshes) :
              meshes[k].numVertices = Len(levels[subdivLevelCount + 1].vertices)

\* C7 as amended: the reported vertexCountPerMesh, which every packed mesh has as its
\* numVertices, is the size of the combined pool, the sum of the vertex counts of levels
\* 0..L: 12 for L=0, 54 for L=1, 216 for L=2, 858 for L=3.
C7_CombinedVertexCount ==
    AsteroidsReturned =>
        /\ vertexCountPerMesh = BaseVertex(subdivLevelCount + 1)
        /\ subdivLevelCount = 0 => vertexCountPerMesh = 12
        /\ subdivLevelCount = 1 => vertexCountPerMesh = 12 + 42
        /\ subdivLevelCount = 2 => vertexCountPerMesh = 12 + 42 + 162
        /\ subdivLevelCount = 3 => vertexCountPerMesh = 12 + 42 + 162 + 642
        /\ \A k \in 1..Len(meshes) :
              /\ meshes[k].numVertices = vertexCountPerMesh
              /\ Len(meshes[k].vertexData) = vertexCountPerMesh

C7_Witness ==
    /\ entry = "makeMeshes"
    /\ pc = "done"
    /\ subdivLevelCount = 1
    /\ Len(meshes) = 2
    /\ meshes[2].numVertices = 54

\* C8: every mesh packed by makeMeshes has an index buffer of length
\* offset[L+1] - offset[L] that equals, element for element, the slice
\* [offset[L], offset[L+1]) of the shared index buffer; any two have equal index buffers.
C8_SharedIndexSlice ==
    (entry = "makeMeshes" /\ pc \in {"pack", "tangents", "create", "done"}) =>
        LET lo == outSubdivIndexOffsets[subdivLevelCount]
            hi == outSubdivIndexOffsets[subdivLevelCount + 1]
        IN  /\ \A k \in 1..Len(meshes) :
                  /\ meshes[k].numIndices = hi - lo
                  /\ Len(meshes[k].indices) = hi - lo
                  /\ \A j \in 1..(hi - lo) :
                        meshes[k].indices[j] = outMesh.indices[lo + j]
            /\ \A k \in 1..Len(meshes), kk \in 1..Len(meshes) :
                  meshes[k].indices = meshes[kk].indices

\* two instances, differently displaced, at a level whose slice does not start at 0
C8_Witness ==
    /\ entry = "makeMeshes"
    /\ pc = "done"
    /\ subdivLevelCount >= 1
    /\ Len(meshes) = 2
    /\ meshes[1].vertexData # meshes[2].vertexData
    /\ meshes[1].indices = meshes[2].indices

\* C9: the index buffer and the offsets that CreateAsteroidsFromGeospheres returns are
\* those its call of CreateGeospheres returned, for every seed and instance count; each
\* returned vertex is a vertex of the geosphere pool with only its radius changed.
C9_TopologyKept ==
    AsteroidsReturned =>
        /\ outMesh.indices = geoReturned.indices
        /\ outSubdivIndexOffsets = geoReturned.offsets
        /\ Len(outMesh.vertices) = meshInstanceCount * Len(baseMesh.vertices)
        /\ \A q \in 1..Len(outMesh.vertices) :
              [outMesh.vertices[q] EXCEPT !.rad = <<1, 1>>]
                  = baseMesh.vertices[((q - 1) % Len(baseMesh.vertices)) + 1]

\* some vertex has actually been moved
C9_Witness ==
    /\ entry = "CreateAsteroidsFromGeospheres"
    /\ pc = "done"
    /\ subdivLevelCount >= 1
    /\ meshInstanceCount = 2
    /\ rngSeed # MakeMeshesSeed
    /\ \E q \in 1..Len(outMesh.vertices) : outMesh.vertices[q].rad # <<1, 1>>
    /\ Len(outMesh.indices) > 60

\* C10: a second call of the same entry with the same seed, instance count and
\* subdivision level (and, for the entries that are given a mesh, a triangle list over
\* its vertices) returns the same vertices, normals, UVs, indices, offsets and packed
\* meshes as the first.
C10_Determinism ==
    (pc = "done" /\ run = 2 /\ ValidTopology(levels[1])) => Output = prevOut

C10_Witness ==
    /\ pc = "done"
    /\ run = 2
    /\ entry = "makeMeshes"
    /\ subdivLevelCount >= 1
    /\ Len(meshes) = 2
    /\ meshes[1].vertexData # meshes[2].vertexData

\* makeMeshes is past its call of CreateAsteroidsFromGeospheres
Packing ==
    /\ entry = "makeMeshes"
    /\ pc \in {"pack", "tangents", "create", "done"}

\* the floats of one element of vertex k (from 1) of a mesh data
ElementFloats(md, k, semantic) ==
    [s \in 1..ElementSize(semantic) |-> md.vertexData[k][ElementOffset(semantic) + s]]

\* C11: in the finished buffer of every packed mesh each vertex's position, normal and
\* UV slots hold the values of its pool entry, so that its UV is (x, y) of its position:
\* the write of a tangent changes nothing but the tangent slot.
C11_AttributesKept ==
    Packing =>
        \A q \in 1..Len(meshes) : \A k \in 1..meshes[q].numVertices :
            LET p == (q - 1) * vertexCountPerMesh + k
            IN  /\ ElementFloats(meshes[q], k, "VES_POSITION")
                     = VertexFloats(outMesh.vertices[p])
                /\ ElementFloats(meshes[q], k, "VES_NORMAL")
                     = NormalFloats(outMesh.normals[p])
                /\ ElementFloats(meshes[q], k, "VES_TEXCOORD") = UVFloats(outMesh.uv[p])
                /\ ElementFloats(meshes[q], k, "VES_TEXCOORD")[1]
                     = ElementFloats(meshes[q], k, "VES_POSITION")[1]
                /\ ElementFloats(meshes[q], k, "VES_TEXCOORD")[2]
                     = ElementFloats(meshes[q], k, "VES_POSITION")[2]

\* C12: makeMeshes appends exactly N meshes; mesh i (from 0) gets its positions, normals
\* and UVs from the pool entries [i*vertexCountPerMesh, (i+1)*vertexCountPerMesh), and
\* these N ranges are pairwise disjoint and cover the pool.
C12_OwnRange ==
    Packing =>
        /\ Len(meshes) = i
        /\ pc = "done" => Len(meshes) = meshInstanceCount
        /\ Len(outMesh.vertices) = meshInstanceCount * vertexCountPerMesh
        /\ Len(outMesh.normals) = meshInstanceCount * vertexCountPerMesh
        /\ Len(outMesh.uv) = meshInstanceCount * vertexCountPerMesh
        /\ \A p \in 1..Len(outMesh.vertices) :
              Cardinality({q \in 1..meshInstanceCount :
                              /\ (q - 1) * vertexCountPerMesh < p
                              /\ p <= q * vertexCountPerMesh}) = 1
        /\ pc = "tangents" =>
              \A k \in 1..vertexCountPerMesh :
                  LET p == i * vertexCountPerMesh + k
                  IN  /\ ElementFloats(meshData, k, "VES_POSITION")
                           = VertexFloats(outMesh.vertices[p])
                      /\ ElementFloats(meshData, k, "VES_NORMAL")
                           = NormalFloats(outMesh.normals[p])
                      /\ ElementFloats(meshData, k, "VES_TEXCOORD")
                           = UVFloats(outMesh.uv[p])
        /\ \A q \in 1..Len(meshes) :
              /\ meshes[q].numVertices = vertexCountPerMesh
              /\ \A k \in 1..vertexCountPerMesh :
                    LET p == (q - 1) * vertexCountPerMesh + k
                    IN  /\ ElementFloats(meshes[q], k, "VES_POSITION")
                             = VertexFloats(outMesh.vertices[p])
                        /\ ElementFloats(meshes[q], k, "VES_NORMAL")
                             = NormalFloats(outMesh.normals[p])
                        /\ ElementFloats(meshes[q], k, "VES_TEXCOORD")[2]
                             = UVFloats(outMesh.uv[p])[2]

\* two meshes from two ranges that differ
C12_Witness ==
    /\ Packing
    /\ pc = "done"
    /\ subdivLevelCount = 1
    /\ Len(meshes) = 2
    /\ ElementFloats(meshes[1], 54, "VES_POSITION") = VertexFloats(outMesh.vertices[54])
    /\ ElementFloats(meshes[2], 1, "VES_POSITION") = VertexFloats(outMesh.vertices[55])
    /\ outMesh.vertices[1] # outMesh.vertices[55]

\* every index of the mesh names a vertex and a normal
IndicesInRange(mesh) ==
    \A k \in 1..Len(mesh.indices) :
        /\ mesh.indices[k] < Len(mesh.vertices)
        /\ mesh.indices[k] < Len(mesh.normals)

\* C13: before the normalisation of ComputeAvgNormalsInPlace the accumulator of every
\* vertex is the sum of cross(v2-v1, v3-v1) over exactly the triangles of the index
\* buffer that have the vertex as a corner, each once, whatever the normals held on
\* entry; a second call on the result leaves the result as it is.
C13_Accumulated ==
    /\ (pc = "normalize" /\ IndicesInRange(newMesh)) =>
          LET inds == newMesh.indices
              triangles == Len(inds) \div 3
          IN  /\ \A j \in 1..(3 * triangles) :
                    \E p \in 1..Len(newMesh.normals[inds[j] + 1].acc) :
                        newMesh.normals[inds[j] + 1].acc[p] = <<(j - 1) \div 3, (j - 1) % 3>>
              /\ \A k \in 1..Len(newMesh.normals) :
                    LET acc == newMesh.normals[k].acc
                    IN  /\ ~newMesh.normals[k].unit
                        /\ \A p \in 1..Len(acc) :
                              /\ acc[p][1] \in 0..(triangles - 1)
                              /\ acc[p][2] \in 0..2
                              /\ inds[3 * acc[p][1] + acc[p][2] + 1] = k - 1
                        /\ \A p \in 1..Len(acc), r \in 1..Len(acc) :
                              p # r => acc[p] # acc[r]
    /\ (entry = "ComputeAvgNormalsInPlace" /\ pc = "done" /\ run = 2
          /\ IndicesInRange(newMesh)) =>
          newMesh = prevOut.newMesh

\* the second call has accumulated over normals the first call left
C13_Witness ==
    /\ entry = "ComputeAvgNormalsInPlace"
    /\ pc = "normalize"
    /\ run = 2
    /\ Len(newMesh.indices) >= 6
    /\ IndicesInRange(newMesh)
    /\ levels[1].normals[1].unit
    /\ Len(newMesh.normals[1].acc) >= 2

\* C14: when CreateAsteroidsFromGeospheres has returned, the vertices, normals and UVs
\* of the output mesh all have length meshInstanceCount * vertexCountPerMesh.
C14_PoolLengths ==
    AsteroidsReturned =>
        /\ Len(outMesh.vertices) = meshInstanceCount * vertexCountPerMesh
        /\ Len(outMesh.normals) = meshInstanceCount * vertexCountPerMesh
        /\ Len(outMesh.uv) = meshInstanceCount * vertexCountPerMesh

C14_Witness ==
    /\ entry = "CreateAsteroidsFromGeospheres"
    /\ pc = "done"
    /\ subdivLevelCount = 1
    /\ meshInstanceCount = 2
    /\ Len(outMesh.uv) = 108
    /\ Len(outMesh.normals) = 108

\* the generator seeded once with the seed and advanced n times
RECURSIVE StateAfter(_, _)
StateAfter(seed, n) ==
    IF n = 0 THEN mt19937(seed) ELSE Advance(StateAfter(seed, n - 1))

\* the instances whose parameters have been drawn
InstancesDrawn ==
    CASE pc = "displace" -> m
      [] pc \in {"normals", "normalize"} -> m + 1
      [] AsteroidsReturned -> meshInstanceCount
      [] OTHER -> 0

\* C15: CreateAsteroidsFromGeospheres draws from one generator, seeded once with
\* rngSeed: the draws made are, instance by instance in order, the instance's
\* persistence and then its noise offset, each from the state the draw before left.
C15_DrawOrder ==
    (entry \in {"CreateAsteroidsFromGeospheres", "makeMeshes"}) =>
        /\ Len(draws) = 2 * InstancesDrawn
        /\ \A k \in 1..Len(draws) :
              /\ draws[k].instance = (k - 1) \div 2
              /\ draws[k].kind = (IF k % 2 = 1 THEN "persistence" ELSE "noise")
              /\ draws[k].state = StateAfter(rngSeed, k - 1)
        /\ pc \in {"displace", "normals", "normalize"} =>
              rng = StateAfter(rngSeed, Len(draws))

\* two instances drawn from a seed of the caller
C15_Witness ==
    /\ entry = "CreateAsteroidsFromGeospheres"
    /\ pc = "done"
    /\ rngSeed # MakeMeshesSeed
    /\ Len(draws) = 4
    /\ draws[3] = [instance |-> 1, kind |-> "persistence",
                   state |-> Advance(Advance(mt19937(rngSeed)))]
    /\ draws[3].state # draws[1].state

\* a/b > [e; 4, 4, 4, ...] as a continued fraction, for a >= 0 and b > 0
\* (sqrt 5 = [2; 4, 4, 4, ...])
RECURSIVE AboveTail(_, _, _)
AboveTail(a, b, e) ==
    IF a \div b # e THEN a \div b > e
    ELSE IF a % b = 0 THEN FALSE
    ELSE ~AboveTail(b, a % b, 4)

\* r + s * sqrt 5 >= 0
SurdNonNeg(r, s) ==
    IF r >= 0 /\ s >= 0 THEN TRUE
    ELSE IF r <= 0 /\ s <= 0 THEN FALSE
    ELSE IF r > 0 THEN AboveTail(r, 0 - s, 2)
    ELSE ~AboveTail(0 - r, s, 2)

\* 10 * den^2 * (the squared length of v before its radius), as <<rat, irr>>
Length2(v) ==
    IF v.sph THEN <<10 * v.den * v.den, 0>> ELSE <<NormRat(v), NormIrr(v)>>

\* the distance of v from the origin is at least, at most f[1]/f[2]
DistanceAtLeast(v, f) ==
    SurdNonNeg(v.rad[1] * v.rad[1] * f[2] * f[2] * Length2(v)[1]
                 - f[1] * f[1] * v.rad[2] * v.rad[2] * 10 * v.den * v.den,
               v.rad[1] * v.rad[1] * f[2] * f[2] * Length2(v)[2])

DistanceAtMost(v, f) ==
    SurdNonNeg(f[1] * f[1] * v.rad[2] * v.rad[2] * 10 * v.den * v.den
                 - v.rad[1] * v.rad[1] * f[2] * f[2] * Length2(v)[1],
               0 - v.rad[1] * v.rad[1] * f[2] * f[2] * Length2(v)[2])

\* float radiusScale = 0.9f; float radiusBias = 0.3f; and their sum
radiusScale == <<9, 10>>
radiusBias == <<3, 10>>
radiusBiasPlusScale == <<12, 10>>

\* C16 (as stated): every displaced vertex lies at a distance from the origin within
\* [radiusBias, radiusBias + radiusScale].
C16_RadiusBound ==
    AsteroidsReturned =>
        \A k \in 1..Len(outMesh.vertices) :
            /\ DistanceAtLeast(outMesh.vertices[k], radiusBias)
            /\ DistanceAtMost(outMesh.vertices[k], radiusBiasPlusScale)

\* C16 (amended): each displaced vertex is its pool vertex v times
\* noise * radiusScale + radiusBias for the noise the instance's noise function returns
\* at v; for a noise in [-1, 1] this factor lies in [radiusBias - radiusScale,
\* radiusBias + radiusScale] = [-0.6, 1.2], and the displaced vertex lies at a distance
\* of at most radiusBias + radiusScale from the origin (and possibly nearer than
\* radiusBias).
C16_RadiusLaw ==
    AsteroidsReturned =>
        \A q \in 0..(meshInstanceCount - 1) : \A k \in 1..vertexCountPerMesh :
            LET v == baseMesh.vertices[k]
                displaced == outMesh.vertices[q * vertexCountPerMesh + k]
                n10 == textureNoise(randomPersistence(draws[2 * q + 1].state), v,
                                    randomNoise(draws[2 * q + 2].state))
                noise == <<n10, 10>>
                factor == <<noise[1] * radiusScale[1] * radiusBias[2]
                              + radiusBias[1] * noise[2] * radiusScale[2],
                            noise[2] * radiusScale[2] * radiusBias[2]>>
            IN  /\ n10 \in (0 - 10)..10
                /\ [displaced EXCEPT !.rad = v.rad] = v
                /\ displaced.rad[1] * v.rad[2] * factor[2]
                     = v.rad[1] * factor[1] * displaced.rad[2]
                /\ 10 * displaced.rad[1] >= (0 - 6) * displaced.rad[2]
                /\ 10 * displaced.rad[1] <= 12 * displaced.rad[2]
                /\ DistanceAtMost(displaced, radiusBiasPlusScale)

\* one vertex turned inside out, one nearer than radiusBias, one beyond radius 1
C16_Witness ==
    /\ AsteroidsReturned
    /\ pc = "done"
    /\ subdivLevelCount = 1
    /\ \E k \in 1..Len(outMesh.vertices) : outMesh.vertices[k].rad[1] < 0
    /\ \E k \in 1..Len(outMesh.vertices) :
          /\ outMesh.vertices[k].rad[1] > 0
          /\ ~DistanceAtLeast(outMesh.vertices[k], radiusBias)
    /\ \E k \in 1..Len(outMesh.vertices) : ~DistanceAtMost(outMesh.vertices[k], <<1, 1>>)

\* C17: SubdivideInPlace and ComputeAvgNormalsInPlace, given an index list whose length
\* is no multiple of 3 or that holds an index >= the vertex count, abort: they process
\* no triangle, accumulate no normal and never return.
C17_FailFast ==
    (/\ entry \in {"SubdivideInPlace", "ComputeAvgNormalsInPlace"}
     /\ run = 1
     /\ ~ValidTopology(levels[1])) =>
        /\ pc \in {"subdivide", "normals", "aborted"}
        /\ pc = "subdivide" => (t = 0 /\ newIndices = <<>>)

\* C18: before makeMeshes writes to any mesh buffer it has compared the lengths of the
\* vertex, normal and UV arrays.
C18_LengthsChecked ==
    Packing => {"vertices", "normals", "uv"} \subseteq lengthChecked

\* C19: SpherifyInPlace, given a vertex at the origin, stops at that vertex: it writes
\* nothing to it, goes on to no later vertex and never returns.
C19_FailFast ==
    entry = "SpherifyInPlace" =>
        \A z \in 1..Len(levels[1].vertices) :
            IsZeroVec(levels[1].vertices[z]) =>
                /\ baseMesh.vertices[z] = levels[1].vertices[z]
                /\ t < z
                /\ pc # "done"

\* every float of the element has been written for every vertex of the mesh data
ElementWritten(md, semantic) ==
    \A k \in 1..md.numVertices : \A s \in 1..ElementSize(semantic) :
        md.vertexData[k][ElementOffset(semantic) + s] # [uninit |-> TRUE]

\* every index of the mesh data has been written
IndicesWritten(md) == \A k \in 1..md.numIndices : md.indices[k] >= 0

\* what C20 asks of one step of a makeMeshes run
StageOrder ==
    (entry = "makeMeshes" /\ entry' = entry /\ run' = run) =>
        \* the geosphere is built once, before any instance is displaced
        /\ geoReturned' # geoReturned => (geoReturned = NoGeo /\ draws = <<>>)
        /\ draws' # draws =>
              /\ geoReturned # NoGeo
              /\ geoReturned' = geoReturned
              /\ outMesh.uv = <<>>
        \* an instance's normals are computed from its displaced vertices
        /\ (pc = "normals" /\ pc' = "normalize") =>
              /\ Len(draws) = 2 * (m + 1)
              /\ Len(newMesh.vertices) = Len(baseMesh.vertices)
              /\ \A k \in 1..Len(newMesh.vertices) :
                    newMesh.vertices[k].rad # baseMesh.vertices[k].rad
              /\ newMesh'.vertices = newMesh.vertices
        /\ (pc = "normalize" /\ pc' = "displace") =>
              /\ vertices' = vertices \o newMesh.vertices
              /\ Len(normals') = Len(vertices')
              /\ draws' = draws
        \* the UVs are computed when every instance has been displaced
        /\ outMesh'.uv # outMesh.uv =>
              /\ m = meshInstanceCount
              /\ Len(draws) = 2 * meshInstanceCount
              /\ Len(outMesh'.vertices) = meshInstanceCount * vertexCountPerMesh
              /\ draws' = draws
        \* tangents after positions, normals, UVs and indices; the mesh after tangents
        /\ (pc = "tangents" /\ pc' = "create") =>
              /\ meshData.numVertices = vertexCountPerMesh
              /\ ElementWritten(meshData, "VES_POSITION")
              /\ ElementWritten(meshData, "VES_NORMAL")
              /\ ElementWritten(meshData, "VES_TEXCOORD")
              /\ IndicesWritten(meshData)
        /\ Len(meshes') > Len(meshes) =>
              /\ pc = "create"
              /\ meshData.numVertices = vertexCountPerMesh
              /\ ElementWritten(meshData, "VES_TANGENT")
              /\ meshes' = Append(meshes, meshData)

\* C20: in one makeMeshes run the geosphere is built exactly once and before any
\* instance is displaced; each instance's normals are recomputed after its
\* displacement; UVs are computed after all displacement; tangent generation starts
\* only when the instance's positions, normals, UVs and indices are in its buffer, and
\* its mesh is created only when its tangents are written.
C20_StageOrder == [][StageOrder]_vars

\* a run that went through every stage for two instances
C20_Witness ==
    /\ entry = "makeMeshes"
    /\ pc = "done"
    /\ subdivLevelCount = 1
    /\ Len(meshes) = 2
    /\ Len(draws) = 4
    /\ geoReturned # NoGeo
    /\ Len(outMesh.uv) = 2 * vertexCountPerMesh
    /\ \A q \in 1..2 : ElementWritten(meshes[q], "VES_TANGENT")

\* the index of the vertex half way between vertices a and b of the mesh in work, which
\* the midpoint map holds for the edge
MidpointOf(a, b) ==
    LET mid == midpoints[Edge(a, b)]
    IN  IF /\ Edge(a, b) \in DOMAIN midpoints
           /\ mid \in Len(PassInput.vertices)..(Len(baseMesh.vertices) - 1)
           /\ baseMesh.vertices[mid + 1]
                \in {MidVertex(baseMesh.vertices[a + 1], baseMesh.vertices[b + 1]),
                     MidVertex(baseMesh.vertices[b + 1], baseMesh.vertices[a + 1])}
        THEN mid
        ELSE -1

\* C21: SubdivideInPlace replaces its t-th input triangle (v0, v1, v2) by exactly four
\* triangles at output positions 4t .. 4t+3: (v0, m01, m20), (m01, v1, m12),
\* (m01, m12, m20), (m20, m12, v2), with m01, m12, m20 the midpoint vertices of the
\* edges v0v1, v1v2, v2v0.
C21_ChildTriangles ==
    (pc = "subdivide" /\ ValidTopology(PassInput)) =>
        /\ Len(newIndices) = 12 * t
        /\ \A k \in 0..(t - 1) :
              LET v0 == At(baseMesh.indices, 3 * k)
                  v1 == At(baseMesh.indices, 3 * k + 1)
                  v2 == At(baseMesh.indices, 3 * k + 2)
                  m01 == MidpointOf(v0, v1)
                  m12 == MidpointOf(v1, v2)
                  m20 == MidpointOf(v2, v0)
              IN  Slice(newIndices, 12 * k, 12 * k + 12)
                    = << v0, m01, m20,
                         m01, v1, m12,
                         m01, m12, m20,
                         m20, m12, v2 >>

\* the second level's pass has emitted the children of some triangles
C21_Witness ==
    /\ entry = "CreateGeospheres"
    /\ pc = "subdivide"
    /\ Len(PassInput.vertices) = 42
    /\ t = 5
    /\ Len(newIndices) = 60
    /\ At(newIndices, 0) = At(baseMesh.indices, 0)
    /\ At(newIndices, 11) = At(baseMesh.indices, 2)
    /\ At(newIndices, 1) = MidpointOf(At(baseMesh.indices, 0), At(baseMesh.indices, 1))

\* the mesh is the icosahedron CreateIcosahedron builds
IsIcosahedron(mesh) ==
    /\ Len(mesh.vertices) = 12
    /\ Len(mesh.normals) = 12
    /\ Len(mesh.indices) = 60
    /\ TriangleCount(mesh.indices) = 20
    /\ \A k \in 1..Len(mesh.indices) : mesh.indices[k] \in 0..11
    /\ \A a \in 0..11 : Cardinality(TrianglesAt(mesh.indices, a)) = 5
    /\ Cardinality(UEdges(mesh.indices)) = 30

\* C22: whatever the mesh held before, CreateIcosahedron leaves exactly 12 vertices, 12
\* normals and 60 indices (20 triangles), every index in 0..11, every vertex used by
\* exactly 5 triangles, and 30 distinct edges.
C22_Icosahedron ==
    /\ (entry = "CreateIcosahedron" /\ pc = "done") => IsIcosahedron(baseMesh)
    /\ (FromIcosahedron /\ Len(levels) >= 1) => IsIcosahedron(levels[1])

\* called on a mesh that held three vertices, one triangle and three UVs
C22_Witness ==
    /\ entry = "CreateIcosahedron"
    /\ pc = "done"
    /\ levels[1] = UsedMesh
    /\ Len(levels[1].vertices) = 3
    /\ baseMesh.vertices[1] = IcoVertices[1]
    /\ baseMesh.uv = UsedMesh.uv

\* the mesh datas generateTangents has run on
Tangented == meshes \o (IF pc = "create" THEN <<meshData>> ELSE <<>>)

\* the float generateTangents wrote as component c (0..3) of vertex k's tangent
TangentComponent(md, k, c) == md.vertexData[k][ElementOffset("VES_TANGENT") + c + 1]

\* C23: for every vertex the fourth tangent component generateTangents writes is +1 when
\* dot(cross(normal, tangent), bitangent) is positive and -1 when it is negative, and it
\* is always one of +1 and -1.
C23_Handedness ==
    entry = "makeMeshes" =>
        \A q \in 1..Len(Tangented) : \A k \in 1..Tangented[q].numVertices :
            LET md == Tangented[q]
                dot == HandednessDot(PositionOf(md.vertexData[k]))
                w == TangentComponent(md, k, 3)
            IN  /\ DOMAIN w = {"sign"}
                /\ w.sign \in {1, 0 - 1}
                /\ dot > 0 => w.sign = 1
                /\ dot < 0 => w.sign = 0 - 1
                /\ \A c \in 0..2 :
                      TangentComponent(md, k, c)
                        = [tangent |-> k - 1, c |-> <<"x", "y", "z">>[c + 1]]

\* a mesh with a vertex of each handedness and one whose dot product is 0
C23_Witness ==
    /\ entry = "makeMeshes"
    /\ pc = "create"
    /\ \E k \in 1..meshData.numVertices :
          /\ HandednessDot(PositionOf(meshData.vertexData[k])) > 0
          /\ TangentComponent(meshData, k, 3).sign = 1
    /\ \E k \in 1..meshData.numVertices :
          /\ HandednessDot(PositionOf(meshData.vertexData[k])) < 0
          /\ TangentComponent(meshData, k, 3).sign = 0 - 1
    /\ \E k \in 1..meshData.numVertices :
          /\ HandednessDot(PositionOf(meshData.vertexData[k])) = 0
          /\ TangentComponent(meshData, k, 3).sign = 0 - 1

\* CreateAsteroidsFromGeospheres is inside its call of ComputeAvgNormalsInPlace
NormalsOfInstance ==
    /\ entry \in {"CreateAsteroidsFromGeospheres", "makeMeshes"}
    /\ pc \in {"normals", "normalize"}

\* C24: in every mesh CreateAsteroidsFromGeospheres passes to ComputeAvgNormalsInPlace
\* each vertex is referenced by at least one triangle of the mesh's index buffer, so
\* no accumulator that received no contribution is normalised.
C24_NoOrphan ==
    NormalsOfInstance =>
        /\ Len(newMesh.normals) = Len(newMesh.vertices)
        /\ \A k \in 0..(Len(newMesh.vertices) - 1) :
              k \in Range(SubSeq(newMesh.indices, 1, 3 * TriangleCount(newMesh.indices)))
        /\ pc = "normalize" =>
              \A k \in 1..Len(newMesh.normals) : newMesh.normals[k].acc # <<>>

\* a mesh of two levels, with vertices only the first level's triangles name
C24_Witness ==
    /\ NormalsOfInstance
    /\ pc = "normalize"
    /\ subdivLevelCount = 1
    /\ Len(newMesh.vertices) = 54
    /\ 0 \notin Range(LevelSlice(1))
    /\ newMesh.normals[1].acc # <<>>
    /\ newMesh.normals[54].acc # <<>>

\* C25: in the buffers CreateGeospheres returns every index of level k's slice lies in
\* [B_k, B_k + V_k), B_k being the vertex count of levels 0..k-1 and V_k that of level
\* k; hence every index makeMeshes copies into a packed mesh is smaller than the mesh's
\* numVertices.
C25_IndicesInRange ==
    /\ pc = "geo_done" =>
          /\ Len(baseMesh.vertices) = BaseVertex(subdivLevelCount + 1)
          /\ \A k \in 0..subdivLevelCount :
                \A j \in 1..Len(LevelSlice(k)) :
                    /\ LevelSlice(k)[j] >= BaseVertex(k)
                    /\ LevelSlice(k)[j] < BaseVertex(k) + Len(levels[k + 1].vertices)
    /\ Packing =>
          \A q \in 1..Len(Tangented) :
              /\ Tangented[q].numIndices = Len(Tangented[q].indices)
              /\ \A j \in 1..Len(Tangented[q].indices) :
                    /\ Tangented[q].indices[j] >= 0
                    /\ Tangented[q].indices[j] < Tangented[q].numVertices
    /\ (Packing /\ pc = "tangents") =>
          \A j \in 1..Len(meshData.indices) :
              /\ meshData.indices[j] >= 0
              /\ meshData.indices[j] < meshData.numVertices

\* a packed mesh of two levels whose indices all name the second level's vertices
C25_Witness ==
    /\ Packing
    /\ pc = "done"
    /\ subdivLevelCount = 1
    /\ Len(meshes) >= 1
    /\ meshes[1].numVertices = 54
    /\ \E j \in 1..Len(meshes[1].indices) : meshes[1].indices[j] = 53
    /\ \A j \in 1..Len(meshes[1].indices) : meshes[1].indices[j] >= 12

\* the directed edges of the triangles of an index list: (v0,v1), (v1,v2), (v2,v0)
DirectedEdges(inds) ==
    {<<At(inds, 3 * k + c), At(inds, 3 * k + ((c + 1) % 3))>> :
        k \in 0..(TriangleCount(inds) - 1), c \in 0..2}

\* no directed edge occurs in two triangles
DirectedOnce(inds) == Cardinality(DirectedEdges(inds)) = 3 * TriangleCount(inds)

\* every directed edge occurs in exactly one triangle and its reverse does too
ConsistentWinding(inds) ==
    LET edges == DirectedEdges(inds)
    IN  /\ Cardinality(edges) = 3 * TriangleCount(inds)
        /\ \A e \in edges : <<e[2], e[1]>> \in edges

C27_PrefixStable ==
    (entry = "CreateAsteroidsFromGeospheres" /\ run = 3 /\ pc = "done") =>
        /\ Len(prevOut.outMesh.vertices) <= Len(outMesh.vertices)
        /\ Len(prevOut.outMesh.normals) <= Len(outMesh.normals)
        /\ vertexCountPerMesh = prevOut.vertexCountPerMesh
        /\ \A p \in 1..Len(prevOut.outMesh.vertices) :
              outMesh.vertices[p] = prevOut.outMesh.vertices[p]
        /\ \A p \in 1..Len(prevOut.outMesh.normals) :
              outMesh.normals[p] = prevOut.outMesh.normals[p]

\* one instance asked for, then two, that differ from each other
C27_Witness ==
    /\ entry = "CreateAsteroidsFromGeospheres"
    /\ run = 3
    /\ pc = "done"
    /\ subdivLevelCount = 1
    /\ meshInstanceCount = 2
    /\ Len(prevOut.outMesh.vertices) = vertexCountPerMesh
    /\ outMesh.vertices[1] = prevOut.outMesh.vertices[1]
    /\ outMesh.vertices[1] # outMesh.vertices[vertexCountPerMesh + 1]

\* an angle in [0, 360)
InRange(angle) == angle >= 0 /\ angle < 360

\* C28: wrapAngle and wrapAngle2 return an angle in [0, 360) for every angle, so after
\* any sequence of CameraFlyer or ObjectRotator updates the stored yaw and pitch lie in
\* [0, 360).
C28_InRange ==
    /\ InRange(flyer.mYaw)
    /\ InRange(flyer.mPitch)
    /\ InRange(rotator.mYaw)
    /\ InRange(rotator.mPitch)

\* the material the renderable is to have, by gMaterialIdx
MaterialOf(idx) ==
    << "standardMaterial", "vertexMaterial", "deferredSurfaceMaterial",
       "standardMaterial", "forwardMaterial" >>[idx + 1]

\* C29: after any number of switchMaterial calls gMaterialIdx is in 0..4 and is the number
\* of calls modulo 5 (it advances 0, 1, 2, 3, 4, 0, ...); the deferred lighting shader
\* overrides the renderer's shaders exactly when gMaterialIdx = 3, and the renderable's
\* material is the standard one for 0 and 3, the vertex one for 1, the deferred surface
\* one for 2 and the forward one for 4.
C29_MaterialCycle ==
    app = "CustomMaterials" =>
        /\ gMaterialIdx \in 0..4
        /\ gMaterialIdx = switches % 5
        /\ (gMaterialIdx = 3) => (shaderOverride = deferredLightingShader)
        /\ (gMaterialIdx # 3) => (shaderOverride = {})
        /\ material = MaterialOf(gMaterialIdx)

\* the index has gone round once and is back at 0, the override set at 3 is gone again
C29_Witness ==
    /\ app = "CustomMaterials"
    /\ switches = 5
    /\ gMaterialIdx = 0
    /\ shaderOverride = {}
    /\ material = "standardMaterial"

\* a pitch in [0, 360) that is not strictly between 45 and 315
OutOfGap(pitch) == InRange(pitch) /\ ~(pitch > 45 /\ pitch < 315)

\* the one of 45 and 315 that a pitch in the gap is nearer to; at 180 both are as near
NearerLimit(pitch) ==
    IF pitch - 45 < 315 - pitch THEN {45}
    ELSE IF pitch - 45 > 315 - pitch THEN {315} ELSE {45, 315}

\* what a call of ApplyAngles is to do
ClampLaw ==
    (fpsPc = "ApplyAngles" /\ fpsPc' = "idle") =>
        LET pitch == fpsCamera.mPitch % 360
        IN  /\ OutOfGap(fpsCamera'.mPitch)
            /\ IF OutOfGap(pitch)
               THEN fpsCamera'.mPitch = pitch
               ELSE fpsCamera'.mPitch \in NearerLimit(pitch)
            /\ fpsCamera'.mYaw = fpsCamera.mYaw % 360

\* C30: after every call of FPSCamera::ApplyAngles, whatever the axis inputs were, the
\* pitch brought into [0, 360) is not strictly between 45 and 315 degrees: a pitch inside
\* that gap has been set to the nearer of 45 and 315; the yaw is wrapped and never
\* clamped.
C30_PitchClamp == [][ClampLaw]_vars

\* the camera constructed with yaw 100 and pitch 40 has turned to yaw 220 and has been
\* stopped at 315: from 40 the pitch moves by multiples of 3, which 315 is not
C30_Witness ==
    /\ app = "Physics"
    /\ fpsPc = "idle"
    /\ fpsCamera.mYaw = 220
    /\ fpsCamera.mPitch = 315

====
